---- MODULE Spec2Model ----
(***************************************************************************)
(* A model of scripts/i18n_tool.py: the translation-memory merge engine    *)
(* and batch translation driver (translate_tree), the two build stages     *)
(* that call it (build_first_hop, build_second_hop_from_en), and the disk  *)
(* state (locale files, cache file) they read and write.                   *)
(*                                                                         *)
(* Text is modelled as a sequence of atoms.  An atom is one character,    *)
(* except that a whole match of _PLACEHOLDER_RE and a whole mask token     *)
(* (__PH<n>__, __TERM<n>__) are one atom each.  A JSON value is a record  *)
(* tagged "str", "num", "obj" or "arr".  A Python dict is the sequence of  *)
(* its <<key, value>> items in insertion order.  A language code is the    *)
(* sequence of its lower-case subtags (zh-hant is <<"zh", "hant">>).       *)
(***************************************************************************)
EXTENDS Integers, Sequences, FiniteSets, TLC

\* ------------------------------------------------------------------------
\* Bounds of the model
\* ------------------------------------------------------------------------
\* Menu operations started in one behaviour.
MaxRuns == 2
\* Times the process is killed from outside in one behaviour.
MaxKills == 1
\* How many entries of FIRST_HOP a first-stage run walks through.
MaxHopLangs == 2
\* The pool size tried besides 1 (I18N_WORKERS).
MaxPool == 2

\* ------------------------------------------------------------------------
\* JSON values
\* ------------------------------------------------------------------------
Str(s) == [t |-> "str", s |-> s]

Num(a) == [t |-> "num", s |-> <<a>>]

Obj(kv) == [t |-> "obj", kv |-> kv]

Arr(el) == [t |-> "arr", el |-> el]

\* isinstance(v, str)
IsStr(v) == v.t = "str"

\* ------------------------------------------------------------------------
\* Python dict as a sequence of items
\* ------------------------------------------------------------------------
Keys(d) == [i \in 1..Len(d) |-> d[i][1]]

KeySet(d) == {d[i][1] : i \in 1..Len(d)}

Has(d, k) == \E i \in 1..Len(d) : d[i][1] = k

\* d[k], for a key that is present
Get(d, k) == d[CHOOSE i \in 1..Len(d) : d[i][1] = k][2]

\* A buggy d[k] = v: the key is removed and inserted again at the end.
DictSetMovesKey(d, k, v) == Append(SelectSeq(d, LAMBDA it : it[1] # k), <<k, v>>)

\* d[k] = v: an existing key keeps its position, a new key goes last.
DictSet(d, k, v) ==
    IF Has(d, k)
    THEN [i \in 1..Len(d) |-> IF d[i][1] = k THEN <<k, v>> ELSE d[i]]
    ELSE Append(d, <<k, v>>)

RECURSIVE pairs_to_flat_dict_from(_, _)
pairs_to_flat_dict_from(d, pairs) ==
    IF pairs = <<>> THEN d
    ELSE pairs_to_flat_dict_from(DictSet(d, Head(pairs)[1], Head(pairs)[2]), Tail(pairs))

\* A buggy reconstruction: a path met again takes the place of the one
\* before it, and each new path goes in front.
RECURSIVE pairs_to_flat_dict_newest_first(_)
pairs_to_flat_dict_newest_first(pairs) ==
    IF pairs = <<>> THEN <<>>
    ELSE LET rest == pairs_to_flat_dict_newest_first(SubSeq(pairs, 1, Len(pairs) - 1))
             last == pairs[Len(pairs)]
         IN  <<last>> \o SelectSeq(rest, LAMBDA it : it[1] # last[1])

pairs_to_flat_dict(pairs) == pairs_to_flat_dict_from(<<>>, pairs)

\* ------------------------------------------------------------------------
\* flatten_json
\* ------------------------------------------------------------------------
RECURSIVE flatten_json(_, _), flatten_dict_items(_, _), flatten_list_items(_, _, _)
flatten_dict_items(kv, prefix) ==
    IF kv = <<>> THEN <<>>
    ELSE LET k == Head(kv)[1]
             p == IF prefix # "" THEN prefix \o "." \o k ELSE k
         IN  flatten_json(Head(kv)[2], p) \o flatten_dict_items(Tail(kv), prefix)

flatten_list_items(el, prefix, i) ==
    IF i > Len(el) THEN <<>>
    ELSE flatten_json(el[i], prefix \o "[" \o ToString(i - 1) \o "]")
             \o flatten_list_items(el, prefix, i + 1)

flatten_json(obj, prefix) ==
    CASE obj.t = "obj" -> flatten_dict_items(obj.kv, prefix)
      [] obj.t = "arr" -> flatten_list_items(obj.el, prefix, 1)
      [] OTHER -> << <<prefix, obj>> >>

\* ------------------------------------------------------------------------
\* Text: atoms, placeholders, CJK
\* ------------------------------------------------------------------------
\* Atoms that are one whole match of _PLACEHOLDER_RE.
\* "<i cjk_x>" is a tag with a CJK character in an attribute; "<i >" is what
\* is left of it when the character is taken out, still a match of <\/?[^>]+>.
PlaceholderAtoms == {"{n}", "%s", "<b>", "<i cjk_x>", "<i >"}

\* Atoms in the ranges of _CJK_RE: a simplified-only character, its
\* traditional form, and a character the two scripts share.
CjkAtoms == {"cjk_s", "cjk_t", "cjk_x"}

WhitespaceAtoms == {" "}

RECURSIVE lstrip(_)
lstrip(s) == IF s # <<>> /\ Head(s) \in WhitespaceAtoms THEN lstrip(Tail(s)) ELSE s

RECURSIVE rstrip(_)
rstrip(s) ==
    IF s # <<>> /\ s[Len(s)] \in WhitespaceAtoms THEN rstrip(SubSeq(s, 1, Len(s) - 1)) ELSE s

\* str.strip()
strip(s) == rstrip(lstrip(s))

\* old in text
Contains(text, old) ==
    \E i \in 1..(Len(text) - Len(old) + 1) : SubSeq(text, i, i + Len(old) - 1) = old

\* text.replace(old, new), old not empty: every occurrence, left to right
RECURSIVE str_replace(_, _, _)
str_replace(text, old, new) ==
    IF Len(text) < Len(old) THEN text
    ELSE IF SubSeq(text, 1, Len(old)) = old
         THEN new \o str_replace(SubSeq(text, Len(old) + 1, Len(text)), old, new)
         ELSE <<Head(text)>> \o str_replace(Tail(text), old, new)

is_zh(code) == code # <<>> /\ code[1] = "zh"

is_cjk(code) == code # <<>> /\ code[1] \in {"zh", "ja", "ko"}

\* _CJK_RE.sub("", a) on one atom that is not itself a CJK character.
cjk_sub(a) == IF a = "<i cjk_x>" THEN "<i >" ELSE a

ensure_no_cjk_when_forbidden(text, tgt_locale) ==
    IF text = <<>> THEN text
    ELSE IF is_cjk(tgt_locale) THEN text
    ELSE strip(SelectSeq([i \in 1..Len(text) |-> cjk_sub(text[i])], LAMBDA a : a \notin CjkAtoms))

extract_placeholders(s) == SelectSeq(s, LAMBDA a : a \in PlaceholderAtoms)

placeholders_equal(src, tgt) == extract_placeholders(src) = extract_placeholders(tgt)

PhToken(idx) == "__PH" \o ToString(idx) \o "__"

TermToken(idx) == "__TERM" \o ToString(idx) \o "__"

\* A placeholder has one token for all its matches.
RECURSIVE mask_placeholders_sub_one_token(_, _)
mask_placeholders_sub_one_token(text, idx) ==
    IF text = <<>> THEN <<>>
    ELSE IF Head(text) \in PlaceholderAtoms
         THEN <<PhToken(0)>> \o mask_placeholders_sub_one_token(Tail(text), idx + 1)
         ELSE <<Head(text)>> \o mask_placeholders_sub_one_token(Tail(text), idx)

RECURSIVE mask_placeholders_sub(_, _)
mask_placeholders_sub(text, idx) ==
    IF text = <<>> THEN <<>>
    ELSE IF Head(text) \in PlaceholderAtoms
         THEN <<PhToken(idx)>> \o mask_placeholders_sub(Tail(text), idx + 1)
         ELSE <<Head(text)>> \o mask_placeholders_sub(Tail(text), idx)

\* <<masked text, mapping>>, the mapping a dict token -> placeholder
mask_placeholders(text) ==
    LET ph == extract_placeholders(text)
    IN  <<mask_placeholders_sub(text, 0), [i \in 1..Len(ph) |-> <<PhToken(i - 1), ph[i]>>]>>

RECURSIVE unmask_placeholders(_, _)
unmask_placeholders(text, mapping) ==
    IF mapping = <<>> THEN text
    ELSE unmask_placeholders(str_replace(text, <<Head(mapping)[1]>>, <<Head(mapping)[2]>>),
                             Tail(mapping))

RECURSIVE mask_protected_terms_loop(_, _, _, _)
mask_protected_terms_loop(out, terms, mapping, idx) ==
    IF terms = <<>> THEN <<out, mapping>>
    ELSE LET term == Head(terms)
         IN  IF term # <<>> /\ Contains(out, term)
             THEN mask_protected_terms_loop(str_replace(out, term, <<TermToken(idx)>>),
                      Tail(terms), Append(mapping, <<TermToken(idx), term>>), idx + 1)
             ELSE mask_protected_terms_loop(out, Tail(terms), mapping, idx)

\* <<masked text, mapping>>, the mapping a dict token -> term
mask_protected_terms(text, terms) ==
    IF text = <<>> \/ terms = <<>> THEN <<text, <<>>>>
    ELSE mask_protected_terms_loop(text, terms, <<>>, 0)

RECURSIVE unmask_protected_terms_loop(_, _)
unmask_protected_terms_loop(text, mapping) ==
    IF mapping = <<>> THEN text
    ELSE unmask_protected_terms_loop(str_replace(text, <<Head(mapping)[1]>>, Head(mapping)[2]),
                                     Tail(mapping))

unmask_protected_terms(text, mapping) ==
    IF text = <<>> \/ mapping = <<>> THEN text
    ELSE unmask_protected_terms_loop(text, mapping)

\* _PLACEHOLDER_RE.sub(repl, text) of postprocess: the i-th placeholder of the
\* text becomes the i-th placeholder of the source, while the source has one.
RECURSIVE repair_placeholders(_, _)
repair_placeholders(text, src_ph) ==
    IF text = <<>> THEN <<>>
    ELSE IF Head(text) \in PlaceholderAtoms
         THEN IF src_ph # <<>>
              THEN <<Head(src_ph)>> \o repair_placeholders(Tail(text), Tail(src_ph))
              ELSE <<Head(text)>> \o repair_placeholders(Tail(text), src_ph)
         ELSE <<Head(text)>> \o repair_placeholders(Tail(text), src_ph)

cache_key(src_lang, tgt_lang, text) == <<src_lang, tgt_lang, text>>

\* ------------------------------------------------------------------------
\* translate_tree: the merge engine (skeleton and work-item selection)
\* ------------------------------------------------------------------------
\* The zh -> zh branch: OpenCC s2t on one character, when the package is there.
opencc_s2t(a) == IF a = "cjk_s" THEN "cjk_t" ELSE a

opencc_t2s(a) == IF a = "cjk_t" THEN "cjk_s" ELSE a

\* None is modelled as "no conversion": the caller then keeps src_text.
opencc_convert_if_possible(src_text, src_lang, tgt_lang, installed) ==
    IF ~(is_zh(src_lang) /\ is_zh(tgt_lang)) \/ ~installed THEN src_text
    ELSE IF \E i \in 1..Len(tgt_lang) : tgt_lang[i] \in {"hant", "tw", "hk"}
         THEN [i \in 1..Len(src_text) |-> opencc_s2t(src_text[i])]
    ELSE IF \E i \in 1..Len(tgt_lang) : tgt_lang[i] \in {"hans", "cn"}
         THEN [i \in 1..Len(src_text) |-> opencc_t2s(src_text[i])]
    ELSE src_text

\* Lines 416-424: the output of the zh -> zh branch.
zh_direct_dict(base_pairs, base_code, tgt_code, installed) ==
    pairs_to_flat_dict(
        [i \in 1..Len(base_pairs) |->
            IF IsStr(base_pairs[i][2])
            THEN <<base_pairs[i][1],
                   Str(opencc_convert_if_possible(base_pairs[i][2].s, base_code, tgt_code,
                                                  installed))>>
            ELSE base_pairs[i]])

\* Lines 444-448 without the test of line 445: every leaf starts as its
\* base value.
full_skeleton_copies_base(out_dict, base_pairs) ==
    pairs_to_flat_dict_from(out_dict, base_pairs)

\* Lines 444-448.
RECURSIVE full_skeleton(_, _)
full_skeleton(out_dict, base_pairs) ==
    IF base_pairs = <<>> THEN out_dict
    ELSE LET path == Head(base_pairs)[1]
             val == Head(base_pairs)[2]
         IN  full_skeleton(DictSet(out_dict, path, IF IsStr(val) THEN Str(<<>>) ELSE val),
                           Tail(base_pairs))

\* Lines 455-466 with the base value as the placeholder of a missing string.
RECURSIVE add_missing_copies_base(_, _, _)
add_missing_copies_base(out_dict, base_pairs, strings) ==
    IF base_pairs = <<>> THEN out_dict
    ELSE LET path == Head(base_pairs)[1]
             val == Head(base_pairs)[2]
         IN  IF Has(out_dict, path) \/ IsStr(val) # strings
             THEN add_missing_copies_base(out_dict, Tail(base_pairs), strings)
             ELSE add_missing_copies_base(DictSet(out_dict, path, val), Tail(base_pairs), strings)

\* Lines 455-459 (strings = FALSE) and 462-466 (strings = TRUE).
RECURSIVE add_missing(_, _, _)
add_missing(out_dict, base_pairs, strings) ==
    IF base_pairs = <<>> THEN out_dict
    ELSE LET path == Head(base_pairs)[1]
             val == Head(base_pairs)[2]
         IN  IF Has(out_dict, path) \/ IsStr(val) # strings
             THEN add_missing(out_dict, Tail(base_pairs), strings)
             ELSE add_missing(DictSet(out_dict, path, IF strings THEN Str(<<>>) ELSE val),
                              Tail(base_pairs), strings)

\* Lines 441-466: the output dictionary before any work item is looked at.
skeleton(base_pairs, existing_pairs, force_full) ==
    IF force_full THEN full_skeleton(<<>>, base_pairs)
    ELSE add_missing(add_missing(pairs_to_flat_dict(existing_pairs), base_pairs, FALSE),
                     base_pairs, TRUE)

\* Lines 481-484, with a test of the value for emptiness only.
has_translation_no_type_test(existing_map, path) ==
    Has(existing_map, path) /\ strip(Get(existing_map, path).s) # <<>>

\* Lines 481-484: the existing value is a string that is not blank.
has_translation(existing_map, path) ==
    /\ Has(existing_map, path)
    /\ IsStr(Get(existing_map, path))
    /\ strip(Get(existing_map, path).s) # <<>>

InSeq(e, s) == \E i \in 1..Len(s) : s[i] = e

\* A cache that forgets what it is given.
CacheSetDropped(cache, k, v) == cache

\* cache[k] = v
CacheSet(cache, k, v) == (k :> v) @@ cache

\* Lines 476-507: one pass over base_pairs.  acc holds out_dict, cache, todo,
\* masked_maps and term_maps as the loop has left them so far.
RECURSIVE select_work(_, _, _, _, _, _, _)
select_work(acc, base_pairs, existing_map, force_full, protected_terms, src_lang_name, tgt_code) ==
    IF base_pairs = <<>> THEN acc
    ELSE LET path == Head(base_pairs)[1]
             val == Head(base_pairs)[2]
             rest == Tail(base_pairs)
             ck == cache_key(src_lang_name, tgt_code, val.s)
             ph == mask_placeholders(val.s)
             tm == mask_protected_terms(ph[1], protected_terms)
             next ==
                 IF ~IsStr(val) THEN acc
                 ELSE IF ~force_full /\ has_translation(existing_map, path) THEN acc
                 ELSE IF InSeq(strip(val.s), protected_terms)
                      THEN [acc EXCEPT !.out_dict = DictSet(@, path, val),
                                       !.cache = CacheSet(@, ck, val.s)]
                 ELSE IF ck \in DOMAIN acc.cache
                      THEN [acc EXCEPT !.out_dict = DictSet(@, path, Str(acc.cache[ck]))]
                 ELSE [acc EXCEPT !.masked_maps = DictSet(@, path, ph[2]),
                                  !.term_maps = DictSet(@, path, tm[2]),
                                  !.todo = Append(@, [seq |-> Len(acc.todo) + 1,
                                                      path |-> path, masked |-> tm[1]])]
         IN  select_work(next, rest, existing_map, force_full, protected_terms,
                         src_lang_name, tgt_code)

\* Lines 522-544.
postprocess(base_map, masked_maps, term_maps, tgt_code, path, masked_tgt) ==
    LET src_text == Get(base_map, path).s
        u1 == unmask_placeholders(masked_tgt,
                                  IF Has(masked_maps, path) THEN Get(masked_maps, path) ELSE <<>>)
        u2 == unmask_protected_terms(u1,
                                  IF Has(term_maps, path) THEN Get(term_maps, path) ELSE <<>>)
        u3 == ensure_no_cjk_when_forbidden(u2, tgt_code)
    IN  IF extract_placeholders(src_text) # <<>> /\ ~placeholders_equal(src_text, u3)
        THEN repair_placeholders(u3, extract_placeholders(src_text))
        ELSE u3

\* ------------------------------------------------------------------------
\* Program constants and inputs
\* ------------------------------------------------------------------------
BASE == <<"zh", "hans">>

FIRST_HOP == << <<"en">>, <<"zh", "hant">>, <<"ja">>, <<"ko">> >>

\* src_lang_name of the two stages
SRC_FIRST == "Chinese (Simplified)"

SRC_SECOND == "English"

\* The language manifest (languages.json): code and fallbacks per language.
\* No run creates pt.json, so fr has no fallback to reuse and pt-br has fr.
Manifest ==
    << [code |-> <<"zh", "hans">>, fallbacks |-> <<>>],
       [code |-> <<"fr">>, fallbacks |-> << <<"pt">> >>],
       [code |-> <<"en", "gb">>, fallbacks |-> << <<"en">> >>],
       [code |-> <<"pt", "br">>, fallbacks |-> << <<"pt">>, <<"fr">> >>] >>

\* The protected terms as load_protected_terms returns them: longest first.
ProtectedTerms == << <<"A", "B">>, <<"cjk_s", "cjk_x">>, <<"B">> >>

\* The base-language file zh-hans.json: two leaves with the same text (a
\* placeholder and a protected term inside), a number, two leaves that are
\* protected terms, one of them written in Chinese.
BaseTree ==
    Obj(<< <<"home", Obj(<< <<"title", Str(<<"cjk_s", " ", "{n}", " ", "A", "B">>)>>,
                            <<"count", Num("7")>> >>)>>,
           <<"greet", Str(<<"cjk_s", " ", "{n}", " ", "A", "B">>)>>,
           <<"brand", Str(<<"A", "B">>)>>,
           <<"name", Str(<<"cjk_s", "cjk_x">>)>> >>)

\* A target file left by earlier work: a path the base no longer has, a
\* number where the base now has a string, a translation edited by hand,
\* and a text of its own where the base has a protected term.
LegacyTarget ==
    Obj(<< <<"legacy.note", Num("1")>>,
           <<"greet", Num("5")>>,
           <<"home.title", Str(<<"m", " ", "{n}">>)>>,
           <<"brand", Str(<<"m">>)>> >>)

AbsentFile == [st |-> "absent", data |-> Obj(<<>>)]

PartialFile == [st |-> "partial", data |-> Obj(<<>>)]

OkFile(obj) == [st |-> "ok", data |-> obj]

\* What a target file may hold before the first run.
InitialTargets == {AbsentFile, OkFile(LegacyTarget)}

\* LANGS_FILE, as a name in files; its content is Manifest.
LangsFile == <<"assets", "languages">>

\* Every locale file name the model touches.
FileCodes ==
    {BASE} \cup {FIRST_HOP[i] : i \in 1..Len(FIRST_HOP)}
           \cup {Manifest[i].code : i \in 1..Len(Manifest)}
           \cup UNION {{Manifest[i].fallbacks[j] : j \in 1..Len(Manifest[i].fallbacks)} :
                       i \in 1..Len(Manifest)}

\* ------------------------------------------------------------------------
\* The external translation service
\* ------------------------------------------------------------------------
\* Atoms that are words of some language (the rest are kept by a translator).
WordAtoms == CjkAtoms \cup {"w_en", "w_fr", "w_ja", "w_ko", "m"}

TargetWord(tgt_code) == "w_" \o tgt_code[1]

\* A translation that keeps tokens, spaces and names and replaces each word.
Translate(masked, tgt_code) ==
    [i \in 1..Len(masked) |-> IF masked[i] \in WordAtoms THEN TargetWord(tgt_code) ELSE masked[i]]

\* The texts a valid response may carry for one item: a translation, or
\* the empty text.
ServiceTexts(masked, tgt_code) == {Translate(masked, tgt_code), <<>>}

\* What translate_one can end with: a final text, None (the response names
\* another path), or the RuntimeError of call_openai_batch after max_retries.
NoneResult == [kind |-> "none", final |-> <<>>]

ExcResult == [kind |-> "exc", final |-> <<>>]

OkResult(final) == [kind |-> "ok", final |-> final]

\* ------------------------------------------------------------------------
\* State
\* ------------------------------------------------------------------------
VARIABLES
    MAX_WORKERS,  \* I18N_WORKERS, read when the module is loaded
    opencc,       \* whether "import opencc" succeeds on this machine
    files,        \* locale files on disk, by language code
    tmps,         \* the <name>.json.tmp files of atomic_write_json
    cacheFile,    \* .cache/i18n_translate_cache.json
    proc,         \* the process: menu, build_first_hop, build_second_hop_from_en
    cache,        \* the cache dict of the running stage
    tt,           \* the frame of the running translate_tree call
    runs,         \* menu operations started so far
    kills,        \* kills so far
    prev,         \* history: the menu operation that ended last, if it ran to its end
    calls,        \* history: units sent to the service, by cache key
    applied,      \* history: <<language, path, final>> of every apply_success
                  \* since the language's file was last rebuilt from scratch
    tool          \* the function or maintenance operation applied last, with its
                  \* input and its result (specification Tools)

vars == <<MAX_WORKERS, opencc, files, tmps, cacheFile, proc, cache, tt, runs, kills,
          prev, calls, applied, tool>>

\* The state of the translation runs: everything but tool.
runvars == <<MAX_WORKERS, opencc, files, tmps, cacheFile, proc, cache, tt, runs, kills,
             prev, calls, applied>>

NoTool == [op |-> "none"]

ProcMenu ==
    [pc |-> "menu", stage |-> "none", force_full |-> FALSE, idx |-> 0,
     base_obj |-> Obj(<<>>), copy_obj |-> Obj(<<>>), failed |-> 0, exc |-> "none"]

\* The process has ended: killed ("none"), or left by an uncaught exception:
\* "unit" (the RuntimeError of call_openai_batch), "config" (a file the
\* stage needs is missing), "json" (a locale file does not parse).
ProcDead(exc) == [ProcMenu EXCEPT !.pc = "dead", !.exc = exc]

NoPrev == [stage |-> "none", force_full |-> FALSE, failed |-> 0]

\* menu, lines 838-839: without the manifest it raises before the first prompt.
menu_start == IF files[LangsFile].st = "absent" THEN ProcDead("config") ELSE ProcMenu

TTIdle ==
    [pc |-> "idle", tgt_code |-> <<>>, base_code |-> <<>>, src_lang_name |-> "",
     force_full |-> FALSE, base_pairs |-> <<>>, existing_pairs |-> <<>>,
     out_dict |-> <<>>, todo |-> <<>>, masked_maps |-> <<>>, term_maps |-> <<>>,
     fut |-> <<>>, cur |-> 0, completed |-> 0, succeeded |-> 0, lock |-> FALSE]

Min(a, b) == IF a < b THEN a ELSE b

\* The languages a stage loops over.
StageLangs(stage) ==
    IF stage = "first" THEN SubSeq(FIRST_HOP, 1, Min(MaxHopLangs, Len(FIRST_HOP)))
    ELSE [i \in 1..Len(Manifest) |-> Manifest[i].code]

CurCode == StageLangs(proc.stage)[proc.idx]

\* ------------------------------------------------------------------------
\* Disk writes.  A write of a whole file takes two steps: "begin" (the file
\* is open and holds part of the text) and "end" (the text is complete).
\* ------------------------------------------------------------------------
\* A write straight into the target, as write_json_preserve_order does.
write_in_place_begin(f, t, path) == <<[f EXCEPT ![path] = PartialFile], t>>

\* atomic_write_json without the .tmp file: the text goes into the target.
atomic_write_in_place(f, t, path) == <<[f EXCEPT ![path] = PartialFile], t>>

\* atomic_write_json up to the end of tmp.write_text: <<files, tmps>>
atomic_write_begin(f, t, path) == <<f, [t EXCEPT ![path] = PartialFile]>>

\* atomic_write_json: tmp.write_text is complete, tmp.replace(path)
atomic_write_end(f, t, path, obj) ==
    <<[f EXCEPT ![path] = OkFile(obj)], [t EXCEPT ![path] = AbsentFile]>>

\* write_json_preserve_order, second step
write_in_place_end(f, t, path, obj) == <<[f EXCEPT ![path] = OkFile(obj)], t>>

load_cache == IF cacheFile.st = "ok" THEN cacheFile.data ELSE <<>>

\* ------------------------------------------------------------------------
\* Init
\* ------------------------------------------------------------------------
Init ==
    /\ MAX_WORKERS \in {1, MaxPool}
    /\ opencc \in BOOLEAN
    /\ \E e \in InitialTargets, b \in {AbsentFile, OkFile(BaseTree)},
          m \in {AbsentFile, OkFile(Obj(<<>>))} :
           files = [c \in FileCodes \cup {LangsFile} |->
                       IF c = LangsFile THEN m
                       ELSE IF c = BASE THEN b
                       ELSE IF c = <<"pt">> THEN AbsentFile
                       ELSE e]
    /\ tmps = [c \in FileCodes |-> AbsentFile]
    /\ cacheFile = [st |-> "absent", data |-> <<>>]
    /\ proc = menu_start
    /\ cache = <<>>
    /\ tt = TTIdle
    /\ runs = 0
    /\ kills = 0
    /\ prev = NoPrev
    /\ calls = <<>>
    /\ applied = {}
    /\ tool = NoTool

\* ------------------------------------------------------------------------
\* The process ends
\* ------------------------------------------------------------------------
\* An exception nobody catches (menu has no try), or a kill: memory is gone.
Die(exc) ==
    /\ proc' = ProcDead(exc)
    /\ tt' = TTIdle
    /\ cache' = <<>>
    /\ prev' = NoPrev

Kill ==
    /\ proc.pc \notin {"menu", "dead"}
    /\ kills < MaxKills
    /\ kills' = kills + 1
    /\ Die("none")
    /\ UNCHANGED <<tool, MAX_WORKERS, opencc, files, tmps, cacheFile, runs, calls, applied>>

\* The tool is started again.
Restart ==
    /\ proc.pc = "dead"
    /\ proc' = menu_start
    /\ UNCHANGED <<tool, MAX_WORKERS, opencc, files, tmps, cacheFile, cache, tt, runs, kills,
                   prev, calls, applied>>

\* ------------------------------------------------------------------------
\* translate_tree, up to the skeleton
\* ------------------------------------------------------------------------
\* Lines 411-466.  existing_obj = None is the empty object here: both
\* flatten to no pairs.  The zh -> zh branch leaves at "zh_write" with the
\* write of line 426 begun; the engine leaves at "built".
translate_tree_call(base_obj, base_code, src_lang_name, tgt_code, existing_obj, force_full) ==
    LET base_pairs == flatten_json(base_obj, "")
        existing_pairs == flatten_json(existing_obj, "")
        frame == [TTIdle EXCEPT !.tgt_code = tgt_code, !.base_code = base_code,
                                !.src_lang_name = src_lang_name,
                                !.force_full = force_full, !.base_pairs = base_pairs,
                                !.existing_pairs = existing_pairs]
    IN  IF is_zh(base_code) /\ is_zh(tgt_code)
        THEN /\ tt' = [frame EXCEPT !.pc = "zh_write",
                           !.out_dict = zh_direct_dict(base_pairs, base_code, tgt_code, opencc)]
             /\ files' = atomic_write_begin(files, tmps, tgt_code)[1]
             /\ tmps' = atomic_write_begin(files, tmps, tgt_code)[2]
        ELSE /\ tt' = [frame EXCEPT !.pc = "built",
                           !.out_dict = skeleton(base_pairs, existing_pairs, force_full)]
             /\ UNCHANGED <<files, tmps>>

\* A full run rebuilds the file from the base: what was applied before is
\* not expected to be there afterwards.
forget_applied(tgt_code, force_full) ==
    IF force_full THEN {a \in applied : a[1] # tgt_code} ELSE applied

\* build_first_hop with the test of lines 639-641 left out: the stage starts
\* whether the base file exists or not.
build_first_hop_unchecked ==
    /\ proc.pc = "menu"
    /\ runs < MaxRuns
    /\ runs' = runs + 1
    /\ \E force_full \in BOOLEAN :
           /\ proc' = [ProcMenu EXCEPT !.pc = "loop", !.stage = "first",
                           !.force_full = force_full, !.idx = 1,
                           !.base_obj = files[BASE].data]
           /\ cache' = load_cache
           /\ UNCHANGED <<tt, prev>>
    /\ UNCHANGED <<tool, MAX_WORKERS, opencc, files, tmps, cacheFile, kills, calls, applied>>

\* ------------------------------------------------------------------------
\* The two stages
\* ------------------------------------------------------------------------
\* build_first_hop, lines 636-644: menu choices 1 (incremental) and 2 (full).
BuildFirstHop ==
    /\ proc.pc = "menu"
    /\ runs < MaxRuns
    /\ runs' = runs + 1
    /\ \E force_full \in BOOLEAN :
           IF files[BASE].st # "ok"
           THEN Die("config")
           ELSE /\ proc' = [ProcMenu EXCEPT !.pc = "loop", !.stage = "first",
                                !.force_full = force_full, !.idx = 1,
                                !.base_obj = files[BASE].data]
                /\ cache' = load_cache
                /\ UNCHANGED <<tt, prev>>
    /\ UNCHANGED <<tool, MAX_WORKERS, opencc, files, tmps, cacheFile, kills, calls, applied>>

\* build_second_hop_from_en, lines 678-687: menu choices 3 and 4.
BuildSecondHop ==
    /\ proc.pc = "menu"
    /\ runs < MaxRuns
    /\ runs' = runs + 1
    /\ \E force_full \in BOOLEAN :
           IF files[<<"en">>].st # "ok"
           THEN Die("config")
           ELSE /\ proc' = [ProcMenu EXCEPT !.pc = "loop", !.stage = "second",
                                !.force_full = force_full, !.idx = 1,
                                !.base_obj = files[<<"en">>].data]
                /\ cache' = load_cache
                /\ UNCHANGED <<tt, prev>>
    /\ UNCHANGED <<tool, MAX_WORKERS, opencc, files, tmps, cacheFile, kills, calls, applied>>

\* Lines 649-668: one turn of the loop of build_first_hop, up to the call.
FirstHopLang ==
    /\ proc.pc = "loop" /\ proc.stage = "first" /\ tt.pc = "idle"
    /\ proc.idx <= Len(StageLangs("first"))
    /\ LET code == CurCode
           reads == files[code].st # "absent" /\ ~proc.force_full
       IN  IF reads /\ files[code].st = "partial"
           THEN /\ Die("json")
                /\ UNCHANGED <<files, tmps, applied>>
           ELSE /\ translate_tree_call(proc.base_obj, BASE, SRC_FIRST, code,
                        IF reads THEN files[code].data ELSE Obj(<<>>), proc.force_full)
                /\ applied' = forget_applied(code, proc.force_full)
                /\ UNCHANGED <<proc, cache, prev>>
    /\ UNCHANGED <<tool, MAX_WORKERS, opencc, cacheFile, runs, kills, calls>>

\* The first fallback configured, whether its file exists or not.
first_configured_fallback(fallbacks) == IF fallbacks = <<>> THEN 0 ELSE 1

\* The first fallback whose locale file exists (lines 707-714); 0 when none.
first_existing_fallback(fallbacks) ==
    IF \E j \in 1..Len(fallbacks) : files[fallbacks[j]].st # "absent"
    THEN CHOOSE j \in 1..Len(fallbacks) :
             /\ files[fallbacks[j]].st # "absent"
             /\ \A k \in 1..(j - 1) : files[fallbacks[k]].st = "absent"
    ELSE 0

\* Lines 689-731: one turn of the loop of build_second_hop_from_en, up to
\* the call of translate_tree or the start of the copy.
SecondHopLang ==
    /\ proc.pc = "loop" /\ proc.stage = "second" /\ tt.pc = "idle"
    /\ proc.idx <= Len(Manifest)
    /\ LET l == Manifest[proc.idx]
           code == l.code
           reads == files[code].st # "absent" /\ ~proc.force_full
           fb == first_existing_fallback(l.fallbacks)
           copy(obj) ==
               /\ files' = write_in_place_begin(files, tmps, code)[1]
               /\ tmps' = write_in_place_begin(files, tmps, code)[2]
               /\ proc' = [proc EXCEPT !.pc = "copying", !.copy_obj = obj]
               /\ applied' = {a \in applied : a[1] # code}
               /\ UNCHANGED <<tt, cache, prev>>
       IN  IF code = BASE \/ \E i \in 1..Len(FIRST_HOP) : FIRST_HOP[i] = code
           THEN /\ proc' = [proc EXCEPT !.idx = @ + 1]
                /\ UNCHANGED <<files, tmps, tt, cache, prev, applied>>
           ELSE IF reads /\ files[code].st = "partial"
           THEN /\ Die("json")
                /\ UNCHANGED <<files, tmps, applied>>
           ELSE IF code[1] = "en" /\ Len(code) > 1
           THEN copy(proc.base_obj)
           ELSE IF fb # 0 /\ files[l.fallbacks[fb]].st = "partial"
           THEN /\ Die("json")
                /\ UNCHANGED <<files, tmps, applied>>
           ELSE IF fb # 0
           THEN copy(files[l.fallbacks[fb]].data)
           ELSE /\ translate_tree_call(proc.base_obj, <<"en">>, SRC_SECOND, code,
                        IF reads THEN files[code].data ELSE Obj(<<>>), proc.force_full)
                /\ applied' = forget_applied(code, proc.force_full)
                /\ UNCHANGED <<proc, cache, prev>>
    /\ UNCHANGED <<tool, MAX_WORKERS, opencc, cacheFile, runs, kills, calls>>

\* write_json_preserve_order of lines 701 and 711 completes; next language.
CopyEnd ==
    /\ proc.pc = "copying"
    /\ files' = write_in_place_end(files, tmps, CurCode, proc.copy_obj)[1]
    /\ tmps' = write_in_place_end(files, tmps, CurCode, proc.copy_obj)[2]
    /\ proc' = [proc EXCEPT !.pc = "loop", !.idx = @ + 1, !.copy_obj = Obj(<<>>)]
    /\ UNCHANGED <<tool, MAX_WORKERS, opencc, cacheFile, cache, tt, runs, kills, prev, calls, applied>>

\* translate_tree has returned: the loop goes on (lines 670-671, 733-734).
StageNext ==
    /\ proc.pc = "loop" /\ tt.pc = "returned"
    /\ tt' = TTIdle
    /\ proc' = [proc EXCEPT !.idx = @ + 1]
    /\ UNCHANGED <<tool, MAX_WORKERS, opencc, files, tmps, cacheFile, cache, runs, kills, prev, calls,
                   applied>>

\* save_cache (lines 673, 736) opens the cache file and starts writing.
SaveCacheBegin ==
    /\ proc.pc = "loop" /\ tt.pc = "idle"
    /\ proc.idx > Len(StageLangs(proc.stage))
    /\ cacheFile' = [st |-> "partial", data |-> <<>>]
    /\ proc' = [proc EXCEPT !.pc = "saving"]
    /\ UNCHANGED <<tool, MAX_WORKERS, opencc, files, tmps, cache, tt, runs, kills, prev, calls, applied>>

\* save_cache is through; the stage returns to the menu.
SaveCacheEnd ==
    /\ proc.pc = "saving"
    /\ cacheFile' = [st |-> "ok", data |-> cache]
    /\ proc' = ProcMenu
    /\ cache' = <<>>
    /\ prev' = [stage |-> proc.stage, force_full |-> proc.force_full, failed |-> proc.failed]
    /\ UNCHANGED <<tool, MAX_WORKERS, opencc, files, tmps, tt, runs, kills, calls, applied>>

\* ------------------------------------------------------------------------
\* translate_tree, after the skeleton
\* ------------------------------------------------------------------------
base_map == pairs_to_flat_dict(tt.base_pairs)

existing_map == pairs_to_flat_dict(tt.existing_pairs)

\* Line 426 completes; the zh -> zh branch returns.
ZhWriteEnd ==
    /\ tt.pc = "zh_write"
    /\ files' = atomic_write_end(files, tmps, tt.tgt_code, Obj(tt.out_dict))[1]
    /\ tmps' = atomic_write_end(files, tmps, tt.tgt_code, Obj(tt.out_dict))[2]
    /\ tt' = [tt EXCEPT !.pc = "returned"]
    /\ UNCHANGED <<tool, MAX_WORKERS, opencc, cacheFile, proc, cache, runs, kills, prev, calls, applied>>

\* Lines 471-511: the todo loop, then the write of the skeleton begins.
SelectWork ==
    /\ tt.pc = "built"
    /\ LET acc == select_work([out_dict |-> tt.out_dict, cache |-> cache, todo |-> <<>>,
                               masked_maps |-> <<>>, term_maps |-> <<>>],
                              tt.base_pairs, existing_map, tt.force_full, ProtectedTerms,
                              tt.src_lang_name, tt.tgt_code)
       IN  /\ tt' = [tt EXCEPT !.pc = "skel_write", !.out_dict = acc.out_dict,
                         !.todo = acc.todo, !.masked_maps = acc.masked_maps,
                         !.term_maps = acc.term_maps]
           /\ cache' = acc.cache
    /\ files' = atomic_write_begin(files, tmps, tt.tgt_code)[1]
    /\ tmps' = atomic_write_begin(files, tmps, tt.tgt_code)[2]
    /\ UNCHANGED <<tool, MAX_WORKERS, opencc, cacheFile, proc, runs, kills, prev, calls, applied>>

\* Line 511 completes; lines 513-520; with a pool, line 612 submits every
\* unit (a future per unit, not started or running: "queued").
SkeletonWritten ==
    /\ tt.pc = "skel_write"
    /\ files' = atomic_write_end(files, tmps, tt.tgt_code, Obj(tt.out_dict))[1]
    /\ tmps' = atomic_write_end(files, tmps, tt.tgt_code, Obj(tt.out_dict))[2]
    /\ tt' = [tt EXCEPT !.pc = "dispatch",
                  !.fut = [i \in 1..Len(tt.todo) |-> [st |-> "queued", res |-> NoneResult]]]
    /\ UNCHANGED <<tool, MAX_WORKERS, opencc, cacheFile, proc, cache, runs, kills, prev, calls, applied>>

Finished == Cardinality({i \in 1..Len(tt.fut) : tt.fut[i].st # "queued"})

\* may_run with the main thread of the sequential loop starting a unit
\* without waiting for the one in hand.
may_run_in_apply(i) ==
    /\ i \in 1..Len(tt.fut)
    /\ tt.fut[i].st = "queued"
    /\ tt.pc \in {"dispatch", "apply_write", "applied", "shutdown"}
    /\ i <= Finished + (IF MAX_WORKERS <= 1 THEN 1 ELSE MAX_WORKERS)

\* Unit i may be inside translate_one now.  Without a pool the main thread
\* calls it for the units in order, each after the one before is dealt with.
\* With a pool the units start in the order submitted, MAX_WORKERS at a time,
\* and go on while the main thread applies results or waits in the
\* executor's shutdown.
may_run(i) ==
    /\ i \in 1..Len(tt.fut)
    /\ tt.fut[i].st = "queued"
    /\ IF MAX_WORKERS <= 1
       THEN tt.pc = "dispatch" /\ \A j \in 1..(i - 1) : tt.fut[j].st = "taken"
       ELSE /\ tt.pc \in {"dispatch", "apply_write", "applied", "shutdown"}
            /\ i <= Finished + MAX_WORKERS

\* What translate_one returns or raises for a unit (lines 556-568): the
\* service's answer is any of those a response can be.
translate_one_results(unit) ==
    {ExcResult, NoneResult}
        \cup {OkResult(postprocess(base_map, tt.masked_maps, tt.term_maps, tt.tgt_code,
                                   unit.path, strip(text))) :
                  text \in ServiceTexts(unit.masked, tt.tgt_code)}

\* The key of line 577 made from the masked text of the unit.
unit_key_masked(unit) == cache_key(tt.src_lang_name, tt.tgt_code, unit.masked)

unit_key(unit) == cache_key(tt.src_lang_name, tt.tgt_code, Get(base_map, unit.path).s)

CountCall(k) == (k :> ((IF k \in DOMAIN calls THEN calls[k] ELSE 0) + 1)) @@ calls

\* translate_one for one unit, in a worker of the pool or in the main thread.
TranslateOne ==
    \E i \in 1..Len(tt.fut) :
        /\ may_run(i)
        /\ \E res \in translate_one_results(tt.todo[i]) :
               tt' = [tt EXCEPT !.fut[i] = [st |-> "done", res |-> res]]
        /\ calls' = CountCall(unit_key(tt.todo[i]))
        /\ UNCHANGED <<tool, MAX_WORKERS, opencc, files, tmps, cacheFile, proc, cache, runs,
                       kills, prev, applied>>

\* Lines 596-603 and 613-619: the main thread has a finished unit in hand.
\*   exception: it propagates; with a pool the executor first waits for the
\*              units still queued or running (the "with" block's exit);
\*   None:      tick_complete(False, ...);
\*   a text:    apply_success enters its critical section (lines 574-579)
\*              and atomic_write_json has begun.
TakeResult ==
    \E i \in 1..Len(tt.fut) :
        /\ tt.pc = "dispatch"
        /\ tt.fut[i].st = "done"
        /\ LET res == tt.fut[i].res
               unit == tt.todo[i]
               taken == [tt EXCEPT !.fut[i].st = "taken"]
           IN  IF res.kind = "exc"
               THEN IF MAX_WORKERS <= 1
                    THEN /\ Die("unit")
                         /\ UNCHANGED <<files, tmps>>
                    ELSE /\ tt' = [taken EXCEPT !.pc = "shutdown"]
                         /\ UNCHANGED <<files, tmps, proc, cache, prev>>
               ELSE IF res.kind = "none"
               THEN /\ tt' = [taken EXCEPT !.completed = @ + 1]
                    /\ proc' = [proc EXCEPT !.failed = @ + 1]
                    /\ UNCHANGED <<files, tmps, cache, prev>>
               ELSE /\ tt' = [taken EXCEPT !.pc = "apply_write", !.lock = TRUE, !.cur = i,
                                  !.out_dict = DictSet(@, unit.path, Str(res.final)),
                                  !.succeeded = @ + 1]
                    /\ cache' = CacheSet(cache, unit_key(unit), res.final)
                    /\ files' = atomic_write_begin(files, tmps, tt.tgt_code)[1]
                    /\ tmps' = atomic_write_begin(files, tmps, tt.tgt_code)[2]
                    /\ UNCHANGED <<proc, prev>>
        /\ UNCHANGED <<tool, MAX_WORKERS, opencc, cacheFile, runs, kills, calls, applied>>

\* Line 580 completes, the lock is released, line 582 logs.
ApplySuccessEnd ==
    /\ tt.pc = "apply_write"
    /\ files' = atomic_write_end(files, tmps, tt.tgt_code, Obj(tt.out_dict))[1]
    /\ tmps' = atomic_write_end(files, tmps, tt.tgt_code, Obj(tt.out_dict))[2]
    /\ tt' = [tt EXCEPT !.pc = "applied", !.lock = FALSE]
    /\ applied' = applied \cup {<<tt.tgt_code, tt.todo[tt.cur].path,
                                  tt.fut[tt.cur].res.final>>}
    /\ UNCHANGED <<tool, MAX_WORKERS, opencc, cacheFile, proc, cache, runs, kills, prev, calls>>

\* tick_complete without the increment of line 587.
TickCompleteUncounted ==
    /\ tt.pc = "applied"
    /\ tt' = [tt EXCEPT !.pc = "dispatch", !.cur = 0]
    /\ UNCHANGED <<tool, MAX_WORKERS, opencc, files, tmps, cacheFile, proc, cache, runs, kills,
                   prev, calls, applied>>

\* tick_complete(True, ...) after apply_success (lines 603, 619).
TickComplete ==
    /\ tt.pc = "applied"
    /\ tt' = [tt EXCEPT !.pc = "dispatch", !.cur = 0, !.completed = @ + 1]
    /\ UNCHANGED <<tool, MAX_WORKERS, opencc, files, tmps, cacheFile, proc, cache, runs, kills,
                   prev, calls, applied>>

\* The executor's shutdown is over (every unit has finished): the exception
\* of fut.result() leaves translate_tree and the process.
ShutdownRaise ==
    /\ tt.pc = "shutdown"
    /\ \A i \in 1..Len(tt.fut) : tt.fut[i].st # "queued"
    /\ Die("unit")
    /\ UNCHANGED <<tool, MAX_WORKERS, opencc, files, tmps, cacheFile, runs, kills, calls, applied>>

\* Lines 622-624: every unit is dealt with; the last write begins.
FinalWriteBegin ==
    /\ tt.pc = "dispatch"
    /\ \A i \in 1..Len(tt.fut) : tt.fut[i].st = "taken"
    /\ files' = atomic_write_begin(files, tmps, tt.tgt_code)[1]
    /\ tmps' = atomic_write_begin(files, tmps, tt.tgt_code)[2]
    /\ tt' = [tt EXCEPT !.pc = "final_write", !.lock = TRUE]
    /\ UNCHANGED <<tool, MAX_WORKERS, opencc, cacheFile, proc, cache, runs, kills, prev, calls, applied>>

\* Line 624 completes; lines 626-629: translate_tree returns out_dict.
FinalWriteEnd ==
    /\ tt.pc = "final_write"
    /\ files' = atomic_write_end(files, tmps, tt.tgt_code, Obj(tt.out_dict))[1]
    /\ tmps' = atomic_write_end(files, tmps, tt.tgt_code, Obj(tt.out_dict))[2]
    /\ tt' = [tt EXCEPT !.pc = "returned", !.lock = FALSE]
    /\ UNCHANGED <<tool, MAX_WORKERS, opencc, cacheFile, proc, cache, runs, kills, prev, calls, applied>>

Next ==
    \/ BuildFirstHop
    \/ BuildSecondHop
    \/ FirstHopLang
    \/ SecondHopLang
    \/ CopyEnd
    \/ StageNext
    \/ SaveCacheBegin
    \/ SaveCacheEnd
    \/ ZhWriteEnd
    \/ SelectWork
    \/ SkeletonWritten
    \/ TranslateOne
    \/ TakeResult
    \/ ApplySuccessEnd
    \/ TickComplete
    \/ ShutdownRaise
    \/ FinalWriteBegin
    \/ FinalWriteEnd
    \/ Kill
    \/ Restart

Spec == Init /\ [][Next]_vars

\* ------------------------------------------------------------------------
\* Properties
\* ------------------------------------------------------------------------
Blank(v) == IsStr(v) /\ strip(v.s) = <<>>

TodoPaths == {tt.todo[i].path : i \in 1..Len(tt.todo)}

\* C1 -- in incremental mode the output of translate_tree has, for every
\* pair of base and target language, the paths of E followed by the base
\* paths E lacks: E's paths come first in E's order, every one of them is
\* kept, and no other path appears.
C1_IncrementalPathsAreUnion ==
    (tt.pc = "returned" /\ ~tt.force_full) =>
        LET e == Keys(existing_map)
            out == Keys(tt.out_dict)
        IN  /\ KeySet(tt.out_dict) = KeySet(existing_map) \cup KeySet(base_map)
            /\ Len(out) >= Len(e)
            /\ SubSeq(out, 1, Len(e)) = e

\* C2 -- in incremental mode a path whose value in E is a non-blank string
\* has that value in the output dictionary, in every state of the call and
\* for every target language.
C2_ExistingNeverOverwritten ==
    (tt.pc # "idle" /\ ~tt.force_full) =>
        \A i \in 1..Len(existing_map) :
            LET p == existing_map[i][1]
                v == existing_map[i][2]
            IN  (IsStr(v) /\ ~Blank(v)) =>
                    Has(tt.out_dict, p) /\ Get(tt.out_dict, p) = v

\* The skeleton of full mode: the base paths in base order, strings empty.
EmptySkeleton ==
    [i \in 1..Len(base_map) |->
        <<base_map[i][1], IF IsStr(base_map[i][2]) THEN Str(<<>>) ELSE base_map[i][2]>>]

\* C3 (as stated) -- in full mode, as long as no unit has been applied, the
\* output dictionary is the base path set in base order with every string
\* leaf empty and every other leaf its base value.
C3_FullEmptyUntilApplied ==
    (tt.pc # "idle" /\ tt.force_full /\ tt.succeeded = 0) => tt.out_dict = EmptySkeleton

\* C3 -- in full mode the output dictionary has the base paths in base
\* order in every state of the call, and the skeleton the engine starts
\* from (before work items are selected) has every string leaf empty and
\* every other leaf its base value, whatever the target file holds.
C3_FullSkeleton ==
    (tt.pc # "idle" /\ tt.force_full) =>
        /\ Keys(tt.out_dict) = Keys(base_map)
        /\ tt.pc = "built" => tt.out_dict = EmptySkeleton

\* A full run has built its skeleton over a target file that has content.
C3_Witness ==
    /\ tt.pc = "built" /\ tt.force_full
    /\ files[tt.tgt_code].st = "ok"
    /\ files[tt.tgt_code].data = LegacyTarget
    /\ tt.out_dict = EmptySkeleton

\* What makes a base string leaf a work item, E read as the spec words it.
NeedsWorkAsStated(path) ==
    \/ tt.force_full
    \/ ~Has(existing_map, path)
    \/ Blank(Get(existing_map, path))

\* The same, with every value of E that is not a non-blank string: a blank
\* string, or a number, a boolean, null.
NeedsWork(path) ==
    \/ tt.force_full
    \/ ~Has(existing_map, path)
    \/ ~IsStr(Get(existing_map, path))
    \/ Blank(Get(existing_map, path))

Selectable(val) ==
    /\ IsStr(val)
    /\ ~InSeq(strip(val.s), ProtectedTerms)
    /\ cache_key(tt.src_lang_name, tt.tgt_code, val.s) \notin DOMAIN cache

SecondIncrementalRun ==
    /\ tt.pc = "returned" /\ ~tt.force_full
    /\ prev.stage = proc.stage /\ ~prev.force_full

C6_OneCallPerKey ==
    \A i, j \in 1..Len(tt.fut) :
        (i # j /\ tt.fut[i].st # "queued" /\ tt.fut[j].st # "queued") =>
            unit_key(tt.todo[i]) # unit_key(tt.todo[j])

\* C7 -- the failure of one unit's service call (every retry used) does not
\* end the run: the executor is not shut down over it and the exception
\* does not leave translate_tree and the process.
C7_UnitFailureDoesNotHalt ==
    /\ tt.pc # "shutdown"
    /\ ~(proc.pc = "dead" /\ proc.exc = "unit")

\* C8 (as stated) -- while translate_tree runs the target file is a
\* complete snapshot; a unit for which apply_success has returned has its
\* translation in the file from then on; an incremental run does not queue
\* it again.
C8_AppliedIsDurable ==
    /\ tt.pc # "idle" => files[tt.tgt_code].st # "partial"
    /\ \A a \in applied :
           /\ files[a[1]].st = "ok"
           /\ Has(files[a[1]].data.kv, a[2])
           /\ Get(files[a[1]].data.kv, a[2]) = Str(a[3])
    /\ (tt.pc = "skel_write" /\ ~tt.force_full) =>
           \A a \in applied : a[1] = tt.tgt_code => a[2] \notin TodoPaths

\* C8 -- while translate_tree runs the target file is a complete snapshot;
\* a unit applied with a translation that is not blank has it in the file
\* from then on (until a full run or a copy rebuilds the file), and an
\* incremental run does not queue it again.
C8_AppliedNonBlankIsDurable ==
    /\ tt.pc # "idle" => files[tt.tgt_code].st # "partial"
    /\ \A a \in applied :
           strip(a[3]) # <<>> =>
               /\ files[a[1]].st = "ok"
               /\ Has(files[a[1]].data.kv, a[2])
               /\ Get(files[a[1]].data.kv, a[2]) = Str(a[3])
    /\ (tt.pc = "skel_write" /\ ~tt.force_full) =>
           \A a \in applied :
               (a[1] = tt.tgt_code /\ strip(a[3]) # <<>>) => a[2] \notin TodoPaths

\* After a kill, an incremental rerun has selected its work for a language
\* that had a unit applied before the kill.
C8_Witness ==
    /\ kills > 0
    /\ tt.pc = "skel_write" /\ ~tt.force_full
    /\ \E a \in applied : a[1] = tt.tgt_code /\ strip(a[3]) # <<>>

\* C9 -- from the skeleton on, no step of translate_tree adds, removes or
\* moves a key of the output dictionary, and every file it writes has the
\* keys of the dictionary in the dictionary's order.
C9_KeyOrderStable ==
    [][(tt.pc # "idle" /\ tt'.pc # "idle") =>
           /\ Keys(tt'.out_dict) = Keys(tt.out_dict)
           /\ (files'[tt.tgt_code] # files[tt.tgt_code] /\ files'[tt.tgt_code].st = "ok") =>
                  Keys(files'[tt.tgt_code].data.kv) = Keys(tt.out_dict)]_vars

\* With a pool, a later unit has been applied while an earlier one has not.
C9_Witness ==
    /\ MAX_WORKERS > 1
    /\ tt.pc = "dispatch"
    /\ \E i, j \in 1..Len(tt.fut) :
           /\ i < j
           /\ tt.fut[i].st # "taken"
           /\ tt.fut[j].st = "taken" /\ tt.fut[j].res.kind = "ok"
           /\ files[tt.tgt_code].st = "ok"
           /\ Get(files[tt.tgt_code].data.kv, tt.todo[j].path) = Str(tt.fut[j].res.final)

\* The units whose translate_one has raised, among those that have finished.
Raised == {i \in 1..Len(tt.fut) : tt.fut[i].st # "queued" /\ tt.fut[i].res.kind = "exc"}

\* The first unit in todo order that raises; Len + 1 when none does.
FirstRaise ==
    IF Raised = {} THEN Len(tt.fut) + 1 ELSE CHOOSE i \in Raised : \A j \in Raised : i <= j

\* The units a run with MAX_WORKERS = 1 applies, given the units' outcomes.
SequentialApplied == {i \in 1..(FirstRaise - 1) : tt.fut[i].res.kind = "ok"}

\* translate_tree is about to return or to raise.
Terminating ==
    \/ tt.pc = "returned"
    \/ tt.pc = "shutdown" /\ \A i \in 1..Len(tt.fut) : tt.fut[i].st # "queued"
    \/ MAX_WORKERS <= 1 /\ tt.pc = "dispatch" /\ Raised # {}

\* C10 -- whatever MAX_WORKERS is, translate_tree ends as the sequential
\* loop ends on the same outcomes of the units: the same units applied, so
\* the same dictionary and counts; per key the cache holds the text of the
\* last unit in todo order; and it raises iff some unit raised.
C10_EndsAsSequential ==
    Terminating =>
        /\ {i \in 1..Len(tt.fut) : tt.fut[i].st = "taken" /\ tt.fut[i].res.kind = "ok"}
               = SequentialApplied
        /\ tt.succeeded = Cardinality(SequentialApplied)
        /\ \A i \in SequentialApplied :
               /\ Get(tt.out_dict, tt.todo[i].path) = Str(tt.fut[i].res.final)
               /\ (\A j \in SequentialApplied :
                       j > i => unit_key(tt.todo[j]) # unit_key(tt.todo[i]))
                      => cache[unit_key(tt.todo[i])] = tt.fut[i].res.final
        /\ (tt.pc = "returned") <=> (Raised = {})

\* The base leaves that are protected terms: strings whose trimmed value is
\* in the list.
ProtectedLeaves ==
    {i \in 1..Len(base_map) :
        IsStr(base_map[i][2]) /\ InSeq(strip(base_map[i][2].s), ProtectedTerms)}

\* C11 -- a base leaf whose trimmed value is a protected term is never
\* queued, and in the dictionary translate_tree returns its value is the
\* base value, for every target language.  Stated for full mode, where no
\* value of an existing file can stand in its place.
C11_ProtectedLeafUnchanged ==
    \A i \in ProtectedLeaves :
        /\ base_map[i][1] \notin TodoPaths
        /\ (tt.pc = "returned" /\ tt.force_full) =>
               (Has(tt.out_dict, base_map[i][1])
                   /\ Get(tt.out_dict, base_map[i][1]) = base_map[i][2])

\* The manifest entry the second stage's loop is at.
CurLang == Manifest[proc.idx]

EnRegion(code) == code[1] = "en" /\ Len(code) > 1

Excluded(code) == code = BASE \/ \E i \in 1..Len(FIRST_HOP) : FIRST_HOP[i] = code

ExistingFallbacks(l) ==
    {j \in 1..Len(l.fallbacks) : files[l.fallbacks[j]].st # "absent"}

HasShortcut(l) == EnRegion(l.code) \/ ExistingFallbacks(l) # {}

\* The file a shortcut copies: en, or the first fallback that exists.
ShortcutSource(l) ==
    IF EnRegion(l.code) THEN <<"en">>
    ELSE l.fallbacks[CHOOSE j \in ExistingFallbacks(l) : \A k \in ExistingFallbacks(l) : j <= k]

\* C18 -- in the second stage a language whose code starts with en- or that
\* has a fallback whose file exists gets a copy of en, or of the first such
\* fallback in configured order: the step that takes the language does not
\* call translate_tree and sends nothing to the service, and the write
\* leaves the target file equal to the source file; no unit of such a
\* language is ever sent; translate_tree runs only for languages with no
\* shortcut.
C18_ShortcutCopies ==
    /\ [](\A k \in DOMAIN calls : ~EnRegion(k[2]))
    /\ []((proc.stage = "second" /\ tt.pc # "idle") =>
              (~Excluded(tt.tgt_code) /\ tt.tgt_code = CurLang.code /\ ~HasShortcut(CurLang)))
    /\ [][(proc.stage = "second" /\ proc.pc = "loop" /\ tt.pc = "idle"
              /\ proc.idx <= Len(Manifest) /\ proc'.stage = "second" /\ proc'.idx = proc.idx
              /\ ~Excluded(CurLang.code) /\ HasShortcut(CurLang))
             => (/\ proc'.pc = "copying"
                 /\ proc'.copy_obj = files[ShortcutSource(CurLang)].data
                 /\ tt' = tt /\ calls' = calls)]_vars
    /\ [][(proc.pc = "copying" /\ proc'.pc = "loop")
             => (/\ HasShortcut(CurLang)
                 /\ files[ShortcutSource(CurLang)].st = "ok"
                 /\ files'[CurLang.code] = files[ShortcutSource(CurLang)]
                 /\ tt' = tt /\ calls' = calls)]_vars

\* The second stage has copied en to en-gb and fr, which the engine wrote
\* in this run, to pt-br.
C18_Witness ==
    /\ proc.stage = "second" /\ proc.pc = "loop" /\ proc.idx > Len(Manifest)
    /\ files[<<"en", "gb">>] = files[<<"en">>]
    /\ files[<<"pt", "br">>] = files[<<"fr">>]
    /\ files[<<"fr">>].st = "ok"
    /\ \E k \in DOMAIN calls : k[2] = <<"fr">>

\* The file a stage reads its source tree from.
StageSource(stage) == IF stage = "first" THEN BASE ELSE <<"en">>

\* C15 -- configuration errors are fatal before any work starts: without
\* the manifest the tool ends at once and nothing is ever written or sent;
\* a stage whose source file (the base file, en.json for the second stage)
\* is missing raises in its first step, from the menu, and that step writes
\* no locale file, no temporary file and no cache file and makes no call;
\* a stage that does start has its source file.
C15_ConfigErrorsBeforeWork ==
    /\ [](files[LangsFile].st = "absent" =>
              (/\ proc.pc = "dead" /\ proc.exc = "config"
               /\ tt = TTIdle /\ runs = 0
               /\ calls = <<>> /\ applied = {}
               /\ cacheFile.st = "absent"
               /\ \A c \in FileCodes : tmps[c] = AbsentFile /\ files[c] \in InitialTargets \cup {OkFile(BaseTree)}))
    /\ []((proc.pc = "dead" /\ proc.exc = "config") => tt = TTIdle)
    /\ [][(proc.pc # "dead" /\ proc'.pc = "dead" /\ proc'.exc = "config")
             => (/\ proc.pc = "menu"
                 /\ \E stage \in {"first", "second"} : files[StageSource(stage)].st = "absent"
                 /\ files' = files /\ tmps' = tmps /\ cacheFile' = cacheFile
                 /\ calls' = calls /\ applied' = applied)]_vars
    /\ [][(proc.pc = "menu" /\ proc'.pc # "menu" /\ proc'.pc # "dead")
             => (/\ files[StageSource(proc'.stage)].st = "ok"
                 /\ proc'.base_obj = files[StageSource(proc'.stage)].data)]_vars
    /\ [][(proc.pc = "menu" /\ runs' # runs /\ files[StageSource("first")].st = "absent"
              /\ files[StageSource("second")].st = "absent")
             => (proc'.pc = "dead" /\ proc'.exc = "config")]_vars

\* A stage was chosen with the manifest present and the base file missing,
\* and raised.
C15_Witness ==
    /\ proc.pc = "dead" /\ proc.exc = "config"
    /\ files[LangsFile].st = "ok"
    /\ files[BASE].st = "absent"
    /\ files[<<"en">>].st = "ok"
    /\ runs > 0

\* ------------------------------------------------------------------------
\* The text pipeline and the maintenance tools, one application at a time
\* ------------------------------------------------------------------------
\* Longest text tried, in atoms.
MaxLen == 3

ToolAtoms == {"A", "B", "m", " ", "cjk_x", "{n}", "<i cjk_x>", PhToken(0), TermToken(0)}

RECURSIVE TextsUpTo(_)
TextsUpTo(n) ==
    IF n = 0 THEN {<<>>}
    ELSE LET shorter == TextsUpTo(n - 1)
         IN  shorter \cup {Append(t, a) : t \in {u \in shorter : Len(u) = n - 1}, a \in ToolAtoms}

ToolTexts == TextsUpTo(MaxLen)

\* Lists load_protected_terms can return: no repeats, longest first.
ToolTermLists ==
    {<<>>, << <<"A", "B">>, <<"B">> >>, << <<"m">> >>, << <<"cjk_x">> >>, << <<"A", "{n}">> >>}

ToolTargets == {<<"en">>, <<"ja">>}

\* Responses that carry every token of the request: the request itself, or
\* a translation of its words.
ToolResponses(masked, tgt_code) == {masked, Translate(masked, tgt_code)}

\* Everything of a run stays as it is while a tool or a function is applied.
InitTools ==
    /\ MAX_WORKERS = 1
    /\ opencc = FALSE
    /\ files = [c \in FileCodes \cup {LangsFile} |->
                   IF c = LangsFile THEN OkFile(Obj(<<>>))
                   ELSE IF c = BASE THEN OkFile(BaseTree) ELSE AbsentFile]
    /\ tmps = [c \in FileCodes |-> AbsentFile]
    /\ cacheFile = [st |-> "absent", data |-> <<>>]
    /\ proc = ProcMenu
    /\ cache = <<>>
    /\ tt = TTIdle
    /\ runs = 0
    /\ kills = 0
    /\ prev = NoPrev
    /\ calls = <<>>
    /\ applied = {}
    /\ tool = NoTool

\* Each behaviour applies one function or one tool once, to inputs it picks.
\* mask_placeholders, then unmask_placeholders with the mapping it returned.
MaskUnmaskPlaceholders ==
    /\ tool = NoTool
    /\ \E s \in ToolTexts :
           LET ph == mask_placeholders(s)
           IN  tool' = [op |-> "mask_placeholders", s |-> s, masked |-> ph[1],
                        mapping |-> ph[2], unmasked |-> unmask_placeholders(ph[1], ph[2])]
    /\ UNCHANGED runvars

\* Lines 499-503 and 528-529 around a response equal to the request.
MaskUnmaskTerms ==
    /\ tool = NoTool
    /\ \E s \in ToolTexts, terms \in ToolTermLists :
           LET ph == mask_placeholders(s)
               tm == mask_protected_terms(ph[1], terms)
           IN  tool' = [op |-> "mask_protected_terms", s |-> s, terms |-> terms,
                        masked |-> tm[1],
                        unmasked |-> unmask_protected_terms(
                                         unmask_placeholders(tm[1], ph[2]), tm[2])]
    /\ UNCHANGED runvars

\* One queued leaf from masking (lines 499-503) to the text translate_one
\* returns (lines 556-568) for a response that carries the tokens.
TranslateLeaf ==
    /\ tool = NoTool
    /\ \E s \in ToolTexts, terms \in ToolTermLists, tgt_code \in ToolTargets :
           /\ strip(s) # <<>>
           /\ ~InSeq(strip(s), terms)
           /\ LET ph == mask_placeholders(s)
                  tm == mask_protected_terms(ph[1], terms)
              IN  \E resp \in ToolResponses(tm[1], tgt_code) :
                      tool' = [op |-> "translate_one", s |-> s, terms |-> terms,
                               tgt_code |-> tgt_code, masked |-> tm[1], resp |-> resp,
                               final |-> postprocess(<< <<"p", Str(s)>> >>,
                                                     << <<"p", ph[2]>> >>,
                                                     << <<"p", tm[2]>> >>,
                                                     tgt_code, "p", resp)]
    /\ UNCHANGED runvars

\* ------------------------------------------------------------------------
\* Paths as text: one character per element
\* ------------------------------------------------------------------------
\* A key path is a sequence of tokens <<"name", characters>> and
\* <<"idx", n>>; its rendering is the path flatten_json builds (lines
\* 189-194): names joined by ".", an index as "[n]".
DigitChars == <<"0", "1", "2", "3", "4", "5", "6", "7", "8", "9">>

\* str(i), for 0 <= i < 100
IntChars(n) ==
    IF n < 10 THEN <<DigitChars[n + 1]>>
    ELSE <<DigitChars[(n \div 10) + 1], DigitChars[(n % 10) + 1]>>

RECURSIVE Render(_, _)
Render(toks, prefix) ==
    IF toks = <<>> THEN prefix
    ELSE LET t == Head(toks)
             p == IF t[1] = "idx" THEN prefix \o <<"[">> \o IntChars(t[2]) \o <<"]">>
                  ELSE IF prefix # <<>> THEN prefix \o <<".">> \o t[2] ELSE t[2]
         IN  Render(Tail(toks), p)

\* The key paths the tools are tried on.
ToolKeyPaths ==
    { << <<"name", <<"a">>>> >>,
      << <<"name", <<"b">>>> >>,
      << <<"name", <<"a", "b">>>> >>,
      << <<"name", <<"a">>>>, <<"name", <<"b">>>> >>,
      << <<"name", <<"b">>>>, <<"name", <<"c">>>> >>,
      << <<"name", <<"b">>>>, <<"idx", 1>> >>,
      << <<"name", <<"b">>>>, <<"idx", 2>> >>,
      << <<"name", <<"b">>>>, <<"idx", 10>> >> }

ToolPaths == {Render(kp, <<>>) : kp \in ToolKeyPaths}

\* Longest flat file tried, in entries.
MaxPaths == 4

\* A flat file's items: distinct paths in any order, each with a value of
\* its own (a string that spells the path).
RECURSIVE FlatFilesUpTo(_)
FlatFilesUpTo(n) ==
    IF n = 0 THEN {<<>>}
    ELSE LET shorter == FlatFilesUpTo(n - 1)
         IN  shorter \cup
             {Append(f, <<q, Str(q)>>) : f \in {g \in shorter : Len(g) = n - 1},
                                         q \in ToolPaths}

ToolFlatFiles == {f \in FlatFilesUpTo(MaxPaths) : \A i, j \in 1..Len(f) : f[i][1] = f[j][1] => i = j}

\* ------------------------------------------------------------------------
\* parse_path_tokens, path_sort_key, sort_locale_file
\* ------------------------------------------------------------------------
IsDigit(c) == \E i \in 1..Len(DigitChars) : DigitChars[i] = c

DigitVal(c) == (CHOOSE i \in 1..Len(DigitChars) : DigitChars[i] = c) - 1

\* int(chars), for a run of digits
RECURSIVE int_of(_, _)
int_of(chars, acc) ==
    IF chars = <<>> THEN acc ELSE int_of(Tail(chars), 10 * acc + DigitVal(Head(chars)))

\* path.index(c, i)
IndexFrom(path, c, i) == CHOOSE j \in i..Len(path) : path[j] = c /\ \A k \in i..(j - 1) : path[k] # c

\* The end of the name that starts at i: the first j >= i at "." or "[", or
\* one past the end.
NameEnd(path, i) ==
    CHOOSE j \in i..(Len(path) + 1) :
        /\ (j = Len(path) + 1 \/ path[j] \in {".", "["})
        /\ \A k \in i..(j - 1) : path[k] \notin {".", "["}

\* Lines 155-171, for paths whose brackets close and hold digits.  A token
\* is <<"int", n>> or <<"str", characters>>.
RECURSIVE parse_path_tokens_from(_, _)
parse_path_tokens_from(path, i) ==
    IF i > Len(path) THEN <<>>
    ELSE IF path[i] = "["
         THEN LET j == IndexFrom(path, "]", i)
              IN  << <<"int", int_of(SubSeq(path, i + 1, j - 1), 0)>> >>
                      \o parse_path_tokens_from(path, j + 1)
    ELSE IF path[i] = "." THEN parse_path_tokens_from(path, i + 1)
    ELSE LET j == NameEnd(path, i)
         IN  << <<"str", SubSeq(path, i, j - 1)>> >> \o parse_path_tokens_from(path, j)

parse_path_tokens(path) == parse_path_tokens_from(path, 1)

\* A sort key that does not tell indexes from names: every token is a
\* string, an index the string of its digits.
path_sort_key_all_names(path) ==
    LET toks == parse_path_tokens(path)
    IN  [i \in 1..Len(toks) |->
            IF toks[i][1] = "int" THEN <<1, IntChars(toks[i][2])>> ELSE <<1, toks[i][2]>>]

path_sort_key(path) ==
    LET toks == parse_path_tokens(path)
    IN  [i \in 1..Len(toks) |->
            IF toks[i][1] = "int" THEN <<0, toks[i][2]>> ELSE <<1, toks[i][2]>>]

\* ord(c) of the characters names and digits are written with.
CharOrder == <<"0", "1", "2", "3", "4", "5", "6", "7", "8", "9", "a", "b", "c">>

Ord(c) == CHOOSE i \in 1..Len(CharOrder) : CharOrder[i] = c

\* s < t on Python strings
RECURSIVE str_less(_, _)
str_less(s, t) ==
    IF t = <<>> THEN FALSE
    ELSE IF s = <<>> THEN TRUE
    ELSE IF Head(s) # Head(t) THEN Ord(Head(s)) < Ord(Head(t))
    ELSE str_less(Tail(s), Tail(t))

\* x < y on the pairs (0, int) and (1, str)
pair_less(x, y) ==
    IF x[1] # y[1] THEN x[1] < y[1]
    ELSE IF x[1] = 0 THEN x[2] < y[2]
    ELSE str_less(x[2], y[2])

\* k1 < k2 on Python tuples
RECURSIVE tuple_less(_, _)
tuple_less(k1, k2) ==
    IF k2 = <<>> THEN FALSE
    ELSE IF k1 = <<>> THEN TRUE
    ELSE IF Head(k1) # Head(k2) THEN pair_less(Head(k1), Head(k2))
    ELSE tuple_less(Tail(k1), Tail(k2))

\* list.sort(key=...) is stable: an item goes before the first item whose
\* key is greater than its own.
RECURSIVE sort_insert(_, _)
sort_insert(sorted, item) ==
    IF sorted = <<>> THEN <<item>>
    ELSE IF tuple_less(path_sort_key(item[1]), path_sort_key(Head(sorted)[1]))
         THEN <<item>> \o sorted
         ELSE <<Head(sorted)>> \o sort_insert(Tail(sorted), item)

RECURSIVE sort_pairs_from(_, _)
sort_pairs_from(sorted, pairs) ==
    IF pairs = <<>> THEN sorted
    ELSE sort_pairs_from(sort_insert(sorted, Head(pairs)), Tail(pairs))

\* Lines 809-818: what is written to the file, and the value returned.
sort_locale_file(obj) ==
    LET pairs == flatten_json(obj, "")
        before == Keys(pairs)
        sorted == sort_pairs_from(<<>>, pairs)
        after == Keys(sorted)
    IN  [written |-> Obj(pairs_to_flat_dict(sorted)),
         changed |-> IF before # after THEN 1 ELSE 0]

SortLocaleFile ==
    /\ tool = NoTool
    /\ \E f \in ToolFlatFiles :
           LET r == sort_locale_file(Obj(f))
           IN  tool' = [op |-> "sort_locale_file", obj |-> Obj(f),
                        written |-> r.written, changed |-> r.changed]
    /\ UNCHANGED runvars

\* ------------------------------------------------------------------------
\* normalize_key_patterns, should_remove, clean_translations_by_key
\* ------------------------------------------------------------------------
StartsWith(text, pre) == Len(pre) <= Len(text) /\ SubSeq(text, 1, Len(pre)) = pre

EndsWith(text, suf) ==
    Len(suf) <= Len(text) /\ SubSeq(text, Len(text) - Len(suf) + 1, Len(text)) = suf

\* raw.split(","), the part being read in cur
RECURSIVE split_commas(_, _)
split_commas(raw, cur) ==
    IF raw = <<>> THEN <<cur>>
    ELSE IF Head(raw) = "," THEN <<cur>> \o split_commas(Tail(raw), <<>>)
    ELSE split_commas(Tail(raw), Append(cur, Head(raw)))

RECURSIVE normalize_parts(_)
normalize_parts(parts) ==
    IF parts = <<>> THEN <<>>
    ELSE LET q == Head(parts)
             one == IF EndsWith(q, <<".", "*">>) THEN <<SubSeq(q, 1, Len(q) - 2), TRUE>>
                    ELSE IF EndsWith(q, <<".">>) THEN <<SubSeq(q, 1, Len(q) - 1), TRUE>>
                    ELSE IF EndsWith(q, <<"*">>) THEN <<SubSeq(q, 1, Len(q) - 1), TRUE>>
                    ELSE <<q, FALSE>>
         IN  <<one>> \o normalize_parts(Tail(parts))

\* Lines 744-756: a sequence of <<pat, is_prefix>>.
normalize_key_patterns(raw) ==
    LET stripped == [i \in 1..Len(split_commas(raw, <<>>)) |-> strip(split_commas(raw, <<>>)[i])]
    IN  normalize_parts(SelectSeq(stripped, LAMBDA x : x # <<>>))

\* A prefix pattern taken as a plain string prefix.
should_remove_startswith(path, patterns) ==
    \E i \in 1..Len(patterns) :
        IF patterns[i][2] THEN StartsWith(path, patterns[i][1]) ELSE path = patterns[i][1]

\* Lines 758-766.
should_remove(path, patterns) ==
    \E i \in 1..Len(patterns) :
        LET pat == patterns[i][1]
        IN  IF patterns[i][2]
            THEN path = pat \/ StartsWith(path, pat \o <<".">>) \/ StartsWith(path, pat \o <<"[">>)
            ELSE path = pat

\* Lines 783-799: one file of the loop.
clean_file(file, patterns) ==
    LET flat == flatten_json(file.data, "")
        kept == SelectSeq(flat, LAMBDA it : ~should_remove(it[1], patterns))
    IN  IF Len(flat) - Len(kept) > 0 THEN OkFile(Obj(pairs_to_flat_dict(kept))) ELSE file

\* Lines 768-802: the locales directory after the call.  The files taken
\* are the *.json there are, the base file's name left out.
clean_translations_by_key(dir, key_patterns_raw) ==
    LET patterns == normalize_key_patterns(key_patterns_raw)
    IN  IF patterns = <<>> THEN dir
        ELSE [c \in DOMAIN dir |->
                 IF c = BASE \/ dir[c].st = "absent" THEN dir[c] ELSE clean_file(dir[c], patterns)]

\* A pattern as the user means it: a path, alone (marker <<>>) or followed
\* by one of the wildcard markers.
ToolMarkers == {<<>>, <<".", "*">>, <<".">>, <<"*">>}

ToolPatterns ==
    {[base |-> b, marker |-> <<>>] : b \in ToolPaths \cup {<<"c">>}}
        \cup {[base |-> b, marker |-> m] :
                 b \in {<<"a">>, <<"b">>, <<"b", ".", "c">>}, m \in ToolMarkers \ {<<>>}}

\* Most patterns in one input.
MaxPatterns == 2

RECURSIVE PatternListsUpTo(_)
PatternListsUpTo(n) ==
    IF n = 0 THEN {<<>>}
    ELSE LET shorter == PatternListsUpTo(n - 1)
         IN  shorter \cup {Append(l, q) : l \in {k \in shorter : Len(k) = n - 1}, q \in ToolPatterns}

\* What is typed: the patterns joined by a comma, or a comma and a space.
RECURSIVE JoinPatterns(_, _)
JoinPatterns(l, sep) ==
    IF l = <<>> THEN <<>>
    ELSE IF Len(l) = 1 THEN l[1].base \o l[1].marker
    ELSE l[1].base \o l[1].marker \o sep \o JoinPatterns(Tail(l), sep)

FlatOf(paths) == [i \in 1..Len(paths) |-> <<paths[i], Str(paths[i])>>]

ToolFileA ==
    FlatOf(<< <<"b", ".", "c">>, <<"a">>, <<"b", "[", "2", "]">>, <<"b", "[", "1", "]">>,
              <<"a", "b">>, <<"a", ".", "b">>, <<"b">>, <<"b", "[", "1", "0", "]">> >>)

ToolFileB == FlatOf(<< <<"a", "b">>, <<"b">>, <<"a">> >>)

ToolFileNames == {BASE, <<"en">>, <<"fr">>}

\* Locales directories: the base file and one or two target files.
ToolDirs ==
    {[c \in ToolFileNames |->
         IF c = BASE THEN OkFile(Obj(ToolFileA))
         ELSE IF c = <<"en">> THEN OkFile(Obj(ToolFileA)) ELSE AbsentFile],
     [c \in ToolFileNames |->
         IF c = BASE THEN OkFile(Obj(ToolFileA))
         ELSE IF c = <<"en">> THEN OkFile(Obj(ToolFileB)) ELSE OkFile(Obj(ToolFileA))]}

\* Menu choice 5.
CleanByKey ==
    /\ tool = NoTool
    /\ \E dir \in ToolDirs, l \in PatternListsUpTo(MaxPatterns), sep \in {<<",">>, <<",", " ">>} :
           /\ (Len(l) < 2 => sep = <<",">>)
           /\ tool' = [op |-> "clean_translations_by_key", dir |-> dir, patterns |-> l,
                       raw |-> JoinPatterns(l, sep),
                       out |-> clean_translations_by_key(dir, JoinPatterns(l, sep))]
    /\ UNCHANGED runvars

\* ------------------------------------------------------------------------
\* flatten_json and pairs_to_flat_dict on whole trees
\* ------------------------------------------------------------------------
\* Deepest nesting and widest container tried.
MaxDepth == 2

MaxWidth == 2

ToolLeaves == {Str(<<"m">>), Num("1")}

\* Object keys; "a.b" is a key of a file that is already flat.
ToolKeys == {"a", "b", "a.b"}

KeySeqs ==
    UNION {{ks \in [1..n -> ToolKeys] : \A i, j \in 1..n : ks[i] = ks[j] => i = j} : n \in 0..MaxWidth}

ObjsOver(vals) ==
    UNION {{Obj([i \in 1..Len(ks) |-> <<ks[i], f[i]>>]) : f \in [1..Len(ks) -> vals]} : ks \in KeySeqs}

ArrsOver(vals) == UNION {{Arr(f) : f \in [1..n -> vals]} : n \in 0..MaxWidth}

RECURSIVE TreesUpTo(_)
TreesUpTo(d) ==
    IF d = 0 THEN ToolLeaves
    ELSE LET v == TreesUpTo(d - 1) IN v \cup ObjsOver(v) \cup ArrsOver(v)

ToolTrees == TreesUpTo(MaxDepth)

\* flatten_json(tree), the flat dict rebuilt from its pairs, and that dict
\* flattened again.
FlattenTree ==
    /\ tool = NoTool
    /\ \E tree \in ToolTrees :
           LET pairs == flatten_json(tree, "")
               flat == pairs_to_flat_dict(pairs)
           IN  tool' = [op |-> "flatten_json", obj |-> tree, pairs |-> pairs, flat |-> flat,
                        again |-> flatten_json(Obj(flat), "")]
    /\ UNCHANGED runvars

\* ------------------------------------------------------------------------
\* build.py: deep_get, locale_lookup, load_locale_with_fallbacks
\* ------------------------------------------------------------------------
\* Python's None, as a lookup result.
None == [t |-> "none"]

\* A key is given by its parts, the pieces key.split(".") returns; the key
\* itself is the parts joined by ".".
RECURSIVE JoinDots(_)
JoinDots(parts) ==
    IF Len(parts) = 1 THEN parts[1] ELSE parts[1] \o "." \o JoinDots(Tail(parts))

\* p.isdigit() and int(p), for a part of one digit
IsDigitPart(p) == \E n \in 0..9 : ToString(n) = p

IntOfPart(p) == CHOOSE n \in 0..9 : ToString(n) = p

\* The loop of deep_get, lines 135-150.
RECURSIVE deep_get_walk(_, _)
deep_get_walk(cur, parts) ==
    IF parts = <<>> THEN cur
    ELSE LET q == Head(parts)
         IN  CASE cur.t = "obj" ->
                      IF Has(cur.kv, q) THEN deep_get_walk(Get(cur.kv, q), Tail(parts)) ELSE None
               [] cur.t = "arr" ->
                      IF ~IsDigitPart(q) THEN None
                      ELSE IF IntOfPart(q) >= Len(cur.el) THEN None
                      ELSE deep_get_walk(cur.el[IntOfPart(q) + 1], Tail(parts))
               [] OTHER -> None

\* Lines 128-150: the whole key as a key of the dict first, then part by part.
deep_get(obj, parts) ==
    IF obj.t = "obj" /\ Has(obj.kv, JoinDots(parts)) THEN Get(obj.kv, JoinDots(parts))
    ELSE deep_get_walk(obj, parts)

merge_locales_prefer_first(dicts) == [layers |-> dicts]

RECURSIVE locale_lookup_layers(_, _)
locale_lookup_layers(layers, parts) ==
    IF layers = <<>> THEN None
    ELSE IF deep_get(Head(layers), parts) # None THEN deep_get(Head(layers), parts)
    ELSE locale_lookup_layers(Tail(layers), parts)

\* Lines 158-164.
locale_lookup(merged, parts) == locale_lookup_layers(merged.layers, parts)

RECURSIVE existing_layers(_, _)
existing_layers(dir, codes) ==
    IF codes = <<>> THEN <<>>
    ELSE (IF dir[Head(codes)].st # "absent" THEN <<dir[Head(codes)].data>> ELSE <<>>)
             \o existing_layers(dir, Tail(codes))

\* The layers without the base file's.
load_locale_without_base(dir, code, fallbacks, base_code) ==
    LET layers == existing_layers(dir, <<code>> \o fallbacks)
    IN  merge_locales_prefer_first(IF layers = <<>> THEN <<Obj(<<>>)>> ELSE layers)

\* Lines 167-187, dir the locales directory.
load_locale_with_fallbacks(dir, code, fallbacks, base_code) ==
    LET layers == existing_layers(dir, <<code>> \o fallbacks
                                           \o (IF code # base_code THEN <<base_code>> ELSE <<>>))
    IN  merge_locales_prefer_first(IF layers = <<>> THEN <<Obj(<<>>)>> ELSE layers)

\* Locale files the renderer may find: flat dicts, and two nested trees.
LookupTrees ==
    ObjsOver(ToolLeaves)
        \cup {Obj(<< <<"a", Obj(<< <<"b", Str(<<"w_fr">>)>> >>)>> >>),
              Obj(<< <<"a", Arr(<<Num("1")>>)>> >>)}

LookupFiles(trees) == {AbsentFile} \cup {OkFile(t) : t \in trees}

LookupCodes == {<<"fr">>, <<"pt">>, <<"en">>, BASE}

LookupFallbacks(code) == IF code = <<"fr">> THEN << <<"pt">>, <<"en">> >> ELSE <<>>

LookupKeys == {<<"a">>, <<"b">>, <<"a", "b">>, <<"a", "0">>, <<"c">>}

\* build.py line 465, then one locale_lookup of apply_i18n_to_html.
LocaleLookup ==
    /\ tool = NoTool
    /\ \E code \in {<<"fr">>, BASE}, parts \in LookupKeys,
          ft \in LookupFiles(LookupTrees), fb \in LookupFiles(LookupTrees),
          fp \in LookupFiles({Obj(<< <<"a", Str(<<"w_pt">>)>> >>)}),
          fe \in LookupFiles({Obj(<< <<"a.b", Str(<<"w_en">>)>> >>),
                              Obj(<< <<"b", Str(<<"w_en">>)>> >>)}) :
           LET dir == [c \in LookupCodes |->
                          IF c = <<"fr">> THEN ft ELSE IF c = <<"pt">> THEN fp
                          ELSE IF c = <<"en">> THEN fe ELSE fb]
               merged == load_locale_with_fallbacks(dir, code, LookupFallbacks(code), BASE)
           IN  tool' = [op |-> "locale_lookup", dir |-> dir, code |-> code, key |-> parts,
                        merged |-> merged, val |-> locale_lookup(merged, parts)]
    /\ UNCHANGED runvars

\* ------------------------------------------------------------------------
\* call_openai_batch and translate_one, attempt by attempt
\* ------------------------------------------------------------------------
\* The default of the parameter max_retries (line 336).
max_retries == 4

\* What one attempt can meet: the request raises, the content is not JSON,
\* or it is a JSON object with a list of items.  An item has a path and a
\* text, each a string (tag "str") or something else.
RaiseReply == [st |-> "raise", items |-> <<>>]

NotJsonReply == [st |-> "not_json", items |-> <<>>]

JsonReply(items) == [st |-> "json", items |-> items]

ReplyItems ==
    {[path |-> q, text |-> t] :
        q \in {Str(<<"p">>), Str(<<"q">>), Num("1")},
        t \in {Str(<<"w_fr", " ">>), Num("1")}}

ToolReplies ==
    {RaiseReply, NotJsonReply, JsonReply(<<>>)} \cup {JsonReply(<<it>>) : it \in ReplyItems}

\* Lines 358-363: the items with a string path and a string text, stripped.
RECURSIVE batch_result(_)
batch_result(items) ==
    IF items = <<>> THEN <<>>
    ELSE LET it == Head(items)
             rest == batch_result(Tail(items))
         IN  IF IsStr(it.path) /\ IsStr(it.text)
             THEN pairs_to_flat_dict(<< <<it.path.s, strip(it.text.s)>> >> \o rest)
             ELSE rest

\* max(1, int(0.85 * len(batch)))
batch_threshold(batch) ==
    IF (85 * Len(batch)) \div 100 > 1 THEN (85 * Len(batch)) \div 100 ELSE 1

RECURSIVE pow2(_)
pow2(n) == IF n = 0 THEN 1 ELSE 2 * pow2(n - 1)

\* A sleep that does not grow with the attempt.
backoff_flat(attempt, jitter) == 4 + jitter

\* Line 371, in quarters of a second: 2 ** attempt plus a jitter of 0 to 0.25.
backoff(attempt, jitter) == 4 * pow2(attempt) + jitter

\* Lines 342-373 from attempt on: the outcome, the attempts made and the
\* sleeps taken.  replies[attempt + 1] is what the attempt meets.
RECURSIVE call_openai_batch_from(_, _, _, _, _)
call_openai_batch_from(batch, replies, jitter, attempt, sleeps) ==
    IF attempt >= max_retries
    THEN [outcome |-> "raise", result |-> <<>>, attempts |-> attempt, sleeps |-> sleeps]
    ELSE LET reply == replies[attempt + 1]
             result == batch_result(reply.items)
         IN  IF reply.st = "json" /\ Len(result) >= batch_threshold(batch)
             THEN [outcome |-> "return", result |-> result, attempts |-> attempt + 1,
                   sleeps |-> sleeps]
             ELSE call_openai_batch_from(batch, replies, jitter, attempt + 1,
                                         Append(sleeps, backoff(attempt, jitter)))

call_openai_batch(batch, replies, jitter) == call_openai_batch_from(batch, replies, jitter, 0, <<>>)

\* Lines 556-568 for a unit without placeholders or terms, with the replies
\* its attempts meet: "exc" when call_openai_batch raises, "none" when the
\* path is not in what it returns, else "ok" with the final text.
translate_one(path, masked_src, tgt_code, replies, jitter) ==
    LET call == call_openai_batch(<< <<path, masked_src>> >>, replies, jitter)
    IN  IF call.outcome = "raise" THEN [call |-> call, res |-> ExcResult]
        ELSE IF ~Has(call.result, path) THEN [call |-> call, res |-> NoneResult]
        ELSE [call |-> call,
              res |-> OkResult(postprocess(<< <<path, Str(masked_src)>> >>, <<>>, <<>>,
                                           tgt_code, path, Get(call.result, path)))]

CallOpenaiBatch ==
    /\ tool = NoTool
    /\ \E replies \in [1..max_retries -> ToolReplies], jitter \in {0, 1} :
           LET r == translate_one(<<"p">>, <<"m">>, <<"fr">>, replies, jitter)
           IN  tool' = [op |-> "call_openai_batch", path |-> <<"p">>, replies |-> replies,
                        outcome |-> r.call.outcome, result |-> r.call.result,
                        attempts |-> r.call.attempts, sleeps |-> r.call.sleeps,
                        res |-> r.res]
    /\ UNCHANGED runvars

\* ------------------------------------------------------------------------
\* translate_one on any response: masking, the single-item batch, postprocess
\* ------------------------------------------------------------------------
\* What a response is made of: a word, a CJK character, the mask tokens of
\* two placeholders and a placeholder written out.
ResponseAtoms == {"m", "cjk_x", PhToken(0), PhToken(1), "{n}"}

RECURSIVE TextsOver(_, _)
TextsOver(atoms, n) ==
    IF n = 0 THEN {<<>>}
    ELSE LET shorter == TextsOver(atoms, n - 1)
         IN  shorter \cup {Append(t, a) : t \in {u \in shorter : Len(u) = n - 1}, a \in atoms}

\* Base leaves: no placeholder, one, two different ones, the same one twice,
\* one that holds a CJK character.
ToolSources ==
    {<<"m">>, <<"m", "{n}">>, <<"{n}", "m", "%s">>, <<"{n}", "{n}">>, <<"<i cjk_x>", "m">>}

\* Lines 499-507 (the unit queued for a leaf) and 556-568 (translate_one
\* with the batch it submits), for a response call_openai_batch returned
\* for the path.
PostprocessResponse ==
    /\ tool = NoTool
    /\ \E s \in ToolSources, tgt_code \in ToolTargets, resp \in TextsOver(ResponseAtoms, MaxLen) :
           LET ph == mask_placeholders(s)
               tm == mask_protected_terms(ph[1], <<>>)
           IN  tool' = [op |-> "postprocess", s |-> s, tgt_code |-> tgt_code,
                        masked |-> tm[1], mapping |-> ph[2],
                        batch |-> << <<"p", tm[1]>> >>, resp |-> resp,
                        final |-> postprocess(<< <<"p", Str(s)>> >>, << <<"p", ph[2]>> >>,
                                              << <<"p", tm[2]>> >>, tgt_code, "p", strip(resp))]
    /\ UNCHANGED runvars

\* ------------------------------------------------------------------------
\* build.py on a file translate_tree has written
\* ------------------------------------------------------------------------
\* Keys of the pages (data-i18n attributes), by their parts.
RenderKeys == {<<"home", "title">>, <<"greet">>, <<"home", "count">>}

\* The paths of the units a call of translate_tree has applied.
RenderApplied == SUBSET {"home.title", "greet"}

RECURSIVE fill_applied(_, _, _)
fill_applied(out_dict, paths, text) ==
    IF paths = {} THEN out_dict
    ELSE LET q == CHOOSE x \in paths : TRUE
         IN  fill_applied(DictSet(out_dict, q, Str(text)), paths \ {q}, text)

\* The flat file of a language whose every string leaf is translated.
translated_file(tgt_code) ==
    OkFile(Obj(fill_applied(full_skeleton(<<>>, flatten_json(BaseTree, "")),
                            {"home.title", "greet", "brand", "name"}, <<TargetWord(tgt_code)>>)))

\* fr.json as translate_tree leaves it when the units outside "done" failed
\* or the run was killed before them (i18n_tool.py lines 441-466, 576, 580),
\* then build.py line 465 and one locale_lookup of apply_i18n_to_html.
RenderLookup ==
    /\ tool = NoTool
    /\ \E force_full \in BOOLEAN, existing \in {Obj(<<>>), LegacyTarget}, done \in RenderApplied,
          parts \in RenderKeys, fe \in {AbsentFile, translated_file(<<"en">>)} :
           LET out_dict == fill_applied(skeleton(flatten_json(BaseTree, ""),
                                                 flatten_json(existing, ""), force_full),
                                        done, <<TargetWord(<<"fr">>)>>)
               dir == [c \in LookupCodes |->
                          IF c = <<"fr">> THEN OkFile(Obj(out_dict))
                          ELSE IF c = <<"pt">> THEN AbsentFile
                          ELSE IF c = <<"en">> THEN fe ELSE OkFile(BaseTree)]
               merged == load_locale_with_fallbacks(dir, <<"fr">>, LookupFallbacks(<<"fr">>), BASE)
           IN  tool' = [op |-> "render_lookup", dir |-> dir, code |-> <<"fr">>, key |-> parts,
                        merged |-> merged, val |-> locale_lookup(merged, parts)]
    /\ UNCHANGED runvars

\* ------------------------------------------------------------------------
\* Which files the tools write: sort_locales, one turn of the second stage
\* ------------------------------------------------------------------------
\* Lines 820-831: the locales directory after sort_locales.
sort_locales(dir, include_base) ==
    [c \in DOMAIN dir |->
        IF dir[c].st = "absent" \/ (~include_base /\ c = BASE) THEN dir[c]
        ELSE OkFile(sort_locale_file(dir[c].data).written)]

\* Menu choice 6.
SortLocales ==
    /\ tool = NoTool
    /\ \E dir \in ToolDirs, include_base \in BOOLEAN :
           tool' = [op |-> "sort_locales", dir |-> dir, include_base |-> include_base,
                    out |-> sort_locales(dir, include_base)]
    /\ UNCHANGED runvars

\* A code as languages.json spells it: subtags in any case, and blanks
\* around it that load_languages keeps (lines 237-248).
RawCodes ==
    {<<"zh", "hans">>, <<"ZH", "Hans">>, <<" ", "zh", "hans">>, <<"zh", "hans", " ">>,
     <<"fr">>, <<"fr", " ">>, <<"en">>, <<"en", "gb">>}

\* str.lower() on one subtag
lower_atom(a) == IF a = "ZH" THEN "zh" ELSE IF a = "Hans" THEN "hans" ELSE a

str_lower(s) == [i \in 1..Len(s) |-> lower_atom(s[i])]

\* Lines 220-221; a file is named here by the code its name is made of.
code_to_filename(code) == str_lower(strip(code))

\* Line 687.
excluded_lower == {str_lower(BASE)} \cup {str_lower(FIRST_HOP[i]) : i \in 1..Len(FIRST_HOP)}

HopFileNames == {code_to_filename(c) : c \in RawCodes}

\* Lines 707-714 on a directory: the first fallback whose file exists, 0 when none.
first_existing_in(dir, fallbacks) ==
    IF \E j \in 1..Len(fallbacks) : dir[code_to_filename(fallbacks[j])].st # "absent"
    THEN CHOOSE j \in 1..Len(fallbacks) :
             /\ dir[code_to_filename(fallbacks[j])].st # "absent"
             /\ \A k \in 1..(j - 1) : dir[code_to_filename(fallbacks[k])].st = "absent"
    ELSE 0

\* Lines 689-731 for one language l: the locales directory once the turn's
\* first write of out_path is done -- the copy of en or of a fallback, or
\* the skeleton translate_tree writes (line 511) before any unit.
second_hop_turn(dir, l, force_full) ==
    LET code == l.code
        out_path == code_to_filename(code)
        en_obj == dir[<<"en">>].data
        existing == IF dir[out_path].st # "absent" /\ ~force_full THEN dir[out_path].data
                    ELSE Obj(<<>>)
        fb == first_existing_in(dir, l.fallbacks)
        acc == select_work([out_dict |-> skeleton(flatten_json(en_obj, ""),
                                                  flatten_json(existing, ""), force_full),
                            cache |-> <<>>, todo |-> <<>>, masked_maps |-> <<>>,
                            term_maps |-> <<>>],
                           flatten_json(en_obj, ""),
                           pairs_to_flat_dict(flatten_json(existing, "")), force_full,
                           ProtectedTerms, SRC_SECOND, code)
    IN  IF str_lower(code) \in excluded_lower THEN dir
        ELSE IF Len(code) > 1 /\ str_lower(code)[1] = "en" /\ code[2] \notin WhitespaceAtoms
        THEN [dir EXCEPT ![out_path] = OkFile(en_obj)]
        ELSE IF fb # 0
        THEN [dir EXCEPT ![out_path] = OkFile(dir[code_to_filename(l.fallbacks[fb])].data)]
        ELSE [dir EXCEPT ![out_path] = OkFile(Obj(acc.out_dict))]

\* Menu choices 3 and 4, one language of the manifest.
SecondHopTurn ==
    /\ tool = NoTool
    /\ \E code \in RawCodes, fallbacks \in {<<>>, << <<"fr">> >>}, force_full \in BOOLEAN,
          ff \in {AbsentFile, translated_file(<<"fr">>)},
          fg \in {AbsentFile, translated_file(<<"en">>)} :
           LET dir == [c \in HopFileNames |->
                          IF c = BASE THEN OkFile(BaseTree)
                          ELSE IF c = <<"en">> THEN translated_file(<<"en">>)
                          ELSE IF c = <<"fr">> THEN ff ELSE fg]
               l == [code |-> code, fallbacks |-> fallbacks]
           IN  tool' = [op |-> "second_hop_turn", dir |-> dir, l |-> l,
                        force_full |-> force_full,
                        out |-> second_hop_turn(dir, l, force_full)]
    /\ UNCHANGED runvars

NextTools ==
    \/ MaskUnmaskPlaceholders
    \/ MaskUnmaskTerms
    \/ TranslateLeaf
    \/ SortLocaleFile
    \/ CleanByKey
    \/ FlattenTree
    \/ LocaleLookup
    \/ CallOpenaiBatch
    \/ PostprocessResponse
    \/ RenderLookup
    \/ SortLocales
    \/ SecondHopTurn

Tools == InitTools /\ [][NextTools]_vars

\* Occurrences of a term in a text, overlapping ones included.
Occurrences(text, term) ==
    Cardinality({i \in 1..(Len(text) - Len(term) + 1) : SubSeq(text, i, i + Len(term) - 1) = term})

\* C12 -- a protected term inside a longer leaf survives translation: for
\* every source text, every term list sorted longest first, every target
\* language and every response that carries the tokens, the text
\* postprocess returns holds each term at least as often as the source
\* does; and masking then unmasking around a response equal to the request
\* gives the source text back.
C12_ProtectedTermSurvives ==
    /\ tool.op = "translate_one" =>
           \A i \in 1..Len(tool.terms) :
               Occurrences(tool.final, tool.terms[i]) >= Occurrences(tool.s, tool.terms[i])
    /\ tool.op = "mask_protected_terms" => tool.unmasked = tool.s

\* C13 -- placeholder parity: for every source text s, also one that holds
\* the literal text __PH0__, unmasking the masked text with the mapping
\* mask_placeholders returned gives a text with the same ordered list of
\* placeholders as s.
C13_PlaceholderParity ==
    tool.op = "mask_placeholders" =>
        extract_placeholders(tool.s) = extract_placeholders(tool.unmasked)

HasCjk(a) == a \in CjkAtoms \/ cjk_sub(a) # a

\* C14 -- for a target language that is not CJK, the text postprocess
\* returns, which is what the output dictionary, the cache and the target
\* file then hold, has no CJK character, whatever the response was and
\* whatever placeholders and protected terms were put back.
C14_NoCjkForNonCjkTarget ==
    (tool.op = "translate_one" /\ ~is_cjk(tool.tgt_code)) =>
        \A i \in 1..Len(tool.final) : ~HasCjk(tool.final[i])

\* The key path a path renders.
KeyPathOf(path) == CHOOSE kp \in ToolKeyPaths : Render(kp, <<>>) = path

\* The comparator as stated, on key paths: token by token, an index before
\* a name, indexes by number, names by their characters, a proper prefix
\* before its extensions.
RECURSIVE KeyPathBefore(_, _)
KeyPathBefore(p, q) ==
    IF q = <<>> THEN FALSE
    ELSE IF p = <<>> THEN TRUE
    ELSE IF Head(p) = Head(q) THEN KeyPathBefore(Tail(p), Tail(q))
    ELSE IF Head(p)[1] # Head(q)[1] THEN Head(p)[1] = "idx"
    ELSE IF Head(p)[1] = "idx" THEN Head(p)[2] < Head(q)[2]
    ELSE str_less(Head(p)[2], Head(q)[2])

InOrder(kv) ==
    \A i, j \in 1..Len(kv) : i < j => ~KeyPathBefore(KeyPathOf(kv[j][1]), KeyPathOf(kv[i][1]))

ExampleUnsorted ==
    <<Render(<< <<"name", <<"b">>>>, <<"name", <<"c">>>> >>, <<>>),
      Render(<< <<"name", <<"a">>>> >>, <<>>),
      Render(<< <<"name", <<"b">>>>, <<"idx", 2>> >>, <<>>),
      Render(<< <<"name", <<"b">>>>, <<"idx", 1>> >>, <<>>)>>

ExampleSorted == <<ExampleUnsorted[2], ExampleUnsorted[4], ExampleUnsorted[3], ExampleUnsorted[1]>>

\* C17 -- sort_locale_file writes a permutation of the flat file's entries
\* (the same paths, each with the value it had), in the order of the
\* path-aware comparator; it reports a change exactly when the order of
\* the paths changed, so an already sorted file is written as it was and
\* reports none; [b.c, a, b[2], b[1]] becomes [a, b[1], b[2], b.c].
C17_SortIsOrderedPermutation ==
    tool.op = "sort_locale_file" =>
        LET b == tool.obj.kv
            w == tool.written.kv
        IN  /\ Len(w) = Len(b)
            /\ {w[i] : i \in 1..Len(w)} = {b[i] : i \in 1..Len(b)}
            /\ InOrder(w)
            /\ tool.changed = (IF w = b THEN 0 ELSE 1)
            /\ InOrder(b) => (w = b /\ tool.changed = 0)
            /\ Keys(b) = ExampleUnsorted => Keys(w) = ExampleSorted

\* The example file has been sorted, and a change reported.
C17_Witness ==
    /\ tool.op = "sort_locale_file"
    /\ Keys(tool.obj.kv) = ExampleUnsorted
    /\ Keys(tool.written.kv) = ExampleSorted
    /\ tool.changed = 1

\* A path matches a pattern as stated: an exact pattern the equal path, a
\* prefix pattern P.*, P. or P* the path P and every path that starts with
\* P. or P[.
Matches(path, q) ==
    IF q.marker = <<>> THEN path = q.base
    ELSE \/ path = q.base
         \/ (Len(path) > Len(q.base) /\ SubSeq(path, 1, Len(q.base)) = q.base
                /\ path[Len(q.base) + 1] \in {".", "["})

MatchesAny(path, l) == \E i \in 1..Len(l) : Matches(path, l[i])

\* C16 -- deletion by key pattern leaves in every target file that is not
\* the base file exactly the entries whose path matches no pattern, with
\* their values and in their order, and leaves the base file as it was;
\* b.* on a file with b.c, a, b[2], b[1], ab, a.b, b, b[10] leaves a, ab, a.b.
C16_CleanRemovesExactlyMatches ==
    tool.op = "clean_translations_by_key" =>
        \A c \in ToolFileNames :
            IF c = BASE \/ tool.dir[c].st = "absent"
            THEN tool.out[c] = tool.dir[c]
            ELSE /\ tool.out[c].st = "ok"
                 /\ tool.out[c].data.kv =
                        SelectSeq(tool.dir[c].data.kv,
                                  LAMBDA it : ~MatchesAny(it[1], tool.patterns))

\* b.* has been applied to a directory whose base file and en file both
\* hold b.c: en is left with a, ab, a.b and the base file with all it had.
C16_Witness ==
    /\ tool.op = "clean_translations_by_key"
    /\ tool.patterns = <<[base |-> <<"b">>, marker |-> <<".", "*">>]>>
    /\ tool.dir[<<"en">>] = OkFile(Obj(ToolFileA))
    /\ Keys(tool.out[<<"en">>].data.kv) = << <<"a">>, <<"a", "b">>, <<"a", ".", "b">> >>
    /\ tool.out[BASE] = OkFile(Obj(ToolFileA))

\* The leaves of a tree, in insertion order for objects and index order for
\* arrays.
RECURSIVE LeavesInOrder(_), LeavesOfAll(_)
LeavesOfAll(vals) ==
    IF vals = <<>> THEN <<>> ELSE LeavesInOrder(Head(vals)) \o LeavesOfAll(Tail(vals))

LeavesInOrder(v) ==
    CASE v.t = "obj" -> LeavesOfAll([i \in 1..Len(v.kv) |-> v.kv[i][2]])
      [] v.t = "arr" -> LeavesOfAll(v.el)
      [] OTHER -> <<v>>

\* A dict that is already flat: every value is a leaf.
IsFlatDict(v) == v.t = "obj" /\ \A i \in 1..Len(v.kv) : v.kv[i][2].t \in {"str", "num"}

DistinctPaths(pairs) == \A i, j \in 1..Len(pairs) : pairs[i][1] = pairs[j][1] => i = j

Flattened(precondition) ==
    (tool.op = "flatten_json" /\ precondition) =>
        /\ [i \in 1..Len(tool.pairs) |-> tool.pairs[i][2]] = LeavesInOrder(tool.obj)
        /\ tool.flat = tool.pairs
        /\ Len(tool.flat) = Len(LeavesInOrder(tool.obj))
        /\ tool.obj \in {Obj(<<>>), Arr(<<>>)} => tool.pairs = <<>>
        /\ IsFlatDict(tool.obj) => (tool.pairs = tool.obj.kv /\ tool.flat = tool.obj.kv)
        /\ tool.again = tool.flat

\* C19 as stated -- for any nested tree, flatten_json emits the leaves in
\* insertion order (objects) and index order (arrays), the flat dict rebuilt
\* from the pairs has its keys in that order with one entry per leaf, an
\* empty tree gives no pairs, and a flat dict flattens to itself.
C19_FlattenTotal == Flattened(TRUE)

\* C19 -- the same for every tree in which no two leaves have the same
\* path; in a tree where they do (a key "a.b" beside an object a with a key
\* b) the flat dict keeps one entry for the path, at the first position and
\* with the last value.
C19_FlattenTotalDistinctPaths ==
    /\ Flattened(DistinctPaths(tool.pairs))
    /\ tool.op = "flatten_json" =>
           /\ DistinctPaths(tool.flat)
           /\ KeySet(tool.flat) = KeySet(tool.pairs)
           /\ \A i \in 1..Len(tool.flat) :
                  \E j \in 1..Len(tool.pairs) :
                      /\ tool.pairs[j] = tool.flat[i]
                      /\ \A k \in (j + 1)..Len(tool.pairs) : tool.pairs[k][1] # tool.flat[i][1]

\* A tree with an object, an array and a dotted key has been flattened,
\* all its paths distinct.
C19_Witness ==
    /\ tool.op = "flatten_json"
    /\ tool.obj = Obj(<< <<"b", Arr(<<Num("1"), Str(<<"m">>)>>)>>,
                       <<"a", Obj(<< <<"a.b", Str(<<"m">>)>>, <<"b", Num("1")>> >>)>> >>)
    /\ Keys(tool.flat) = <<"b[0]", "b[1]", "a.a.b", "a.b">>

\* The files the lookup of a language goes through, as stated: the
\* language's own, its fallbacks in configured order, the base file.
LayerCodes(code) ==
    <<code>> \o LookupFallbacks(code) \o (IF code # BASE THEN <<BASE>> ELSE <<>>)

ResolvesIn(file, parts) == file.st # "absent" /\ deep_get(file.data, parts) # None

\* C20 -- the renderer's lookup returns the value the key has in the first
\* of the files [the language's own, each fallback in configured order, the
\* base file] that exists and in which the key resolves, and None only when
\* it resolves in none of them; a key that resolves in the base file
\* resolves for every language.
C20_LookupFirstResolvingLayer ==
    tool.op = "locale_lookup" =>
        LET codes == LayerCodes(tool.code)
            hits == {i \in 1..Len(codes) : ResolvesIn(tool.dir[codes[i]], tool.key)}
        IN  /\ hits = {} => tool.val = None
            /\ hits # {} =>
                   LET first == CHOOSE i \in hits : \A j \in hits : i <= j
                   IN  tool.val = deep_get(tool.dir[codes[first]].data, tool.key)
            /\ ResolvesIn(tool.dir[BASE], tool.key) => tool.val # None

\* fr.json lacks the key, pt.json does not exist, en.json lacks it, and the
\* base file's value is returned.
C20_Witness ==
    /\ tool.op = "locale_lookup"
    /\ tool.code = <<"fr">>
    /\ tool.key = <<"a", "b">>
    /\ tool.dir[<<"fr">>].st = "ok" /\ ~ResolvesIn(tool.dir[<<"fr">>], tool.key)
    /\ tool.dir[<<"pt">>].st = "absent"
    /\ tool.dir[<<"en">>].st = "ok" /\ ~ResolvesIn(tool.dir[<<"en">>], tool.key)
    /\ tool.dir[BASE].data = Obj(<< <<"a", Obj(<< <<"b", Str(<<"w_fr">>)>> >>)>> >>)
    /\ tool.val = Str(<<"w_fr">>)

\* A reply that holds a string text for the path asked for.
HasTextFor(reply, path) ==
    /\ reply.st = "json"
    /\ \E i \in 1..Len(reply.items) :
           reply.items[i].path = Str(path) /\ IsStr(reply.items[i].text)

\* C21 -- a response that is malformed or holds no string text for the
\* requested path counts as a failed attempt and is retried while attempts
\* are left; a unit is marked failed (translate_one returns None) only when
\* the retry ceiling has been reached, never after one attempt.
C21_FailedOnlyAfterCeiling ==
    tool.op = "call_openai_batch" =>
        /\ \A k \in 1..(max_retries - 1) :
               (k <= tool.attempts /\ ~HasTextFor(tool.replies[k], tool.path))
                   => tool.attempts > k
        /\ tool.res.kind = "none" => tool.attempts = max_retries

\* A reply that passes the validation of call_openai_batch for a batch of
\* one: JSON with at least one item whose path and text are strings.
PassesValidation(reply) ==
    /\ reply.st = "json"
    /\ \E i \in 1..Len(reply.items) : IsStr(reply.items[i].path) /\ IsStr(reply.items[i].text)

FirstPassing(replies) ==
    IF \E k \in 1..max_retries : PassesValidation(replies[k])
    THEN CHOOSE k \in 1..max_retries :
             PassesValidation(replies[k]) /\ \A j \in 1..(k - 1) : ~PassesValidation(replies[j])
    ELSE 0

\* C22 -- call_openai_batch makes at most max_retries attempts; it returns
\* what the first attempt that passes validation gave and attempts nothing
\* after it; when none of max_retries attempts passes it raises; every
\* failed attempt k (from 0) is followed by a sleep of at least 2^k seconds
\* (4 * 2^k quarters).
C22_BoundedRetry ==
    tool.op = "call_openai_batch" =>
        LET first == FirstPassing(tool.replies)
        IN  /\ tool.attempts \in 1..max_retries
            /\ first # 0 =>
                   /\ tool.outcome = "return"
                   /\ tool.attempts = first
                   /\ tool.result = batch_result(tool.replies[first].items)
                   /\ Len(tool.sleeps) = first - 1
            /\ first = 0 =>
                   /\ tool.outcome = "raise"
                   /\ tool.attempts = max_retries
                   /\ tool.res.kind = "exc"
                   /\ Len(tool.sleeps) = max_retries
            /\ \A k \in 1..Len(tool.sleeps) : tool.sleeps[k] >= 4 * pow2(k - 1)

\* Two attempts failed, the third passed: two sleeps, of 1 s and 2 s at
\* least, and no fourth attempt.
C22_Witness ==
    /\ tool.op = "call_openai_batch"
    /\ tool.replies[1] = RaiseReply
    /\ tool.replies[2] = JsonReply(<<>>)
    /\ PassesValidation(tool.replies[3])
    /\ tool.attempts = 3
    /\ tool.outcome = "return"
    /\ tool.res.kind = "ok"
    /\ Len(tool.sleeps) = 2

\* Unit i ends in failure in this step: translate_one returned None and the
\* result loop takes it (tick_complete(False)).
FailedUnitStep(i) ==
    /\ i \in 1..Len(tt.fut)
    /\ Len(tt'.fut) = Len(tt.fut)
    /\ tt.fut[i].st = "done" /\ tt.fut[i].res.kind = "none"
    /\ tt'.fut[i].st = "taken"

\* What the output dictionary holds at a queued path before any unit is
\* applied: the existing value in incremental mode, else the empty string.
SkeletonValue(path) ==
    IF ~tt.force_full /\ Has(existing_map, path) THEN Get(existing_map, path) ELSE Str(<<>>)

FailedUnitFrame(i) ==
    /\ tt'.out_dict = tt.out_dict
    /\ Get(tt'.out_dict, tt.todo[i].path) = SkeletonValue(tt.todo[i].path)
    /\ cache' = cache
    /\ tt'.succeeded = tt.succeeded
    /\ files' = files /\ tmps' = tmps

IsBlankStr(v) == IsStr(v) /\ strip(v.s) = <<>>

C24_SucceededLeCompleted ==
    ~tt.lock => tt.succeeded <= tt.completed

\* The result loop and what follows it, while no exception has escaped.
InResultLoop == tt.pc \in {"dispatch", "apply_write", "applied", "final_write", "returned"}

\* The units whose tick_complete has run: those the result loop has taken,
\* but for the one being applied.
Ticked ==
    Cardinality({i \in 1..Len(tt.fut) : tt.fut[i].st = "taken"})
        - (IF tt.pc \in {"apply_write", "applied"} THEN 1 ELSE 0)

AppliedUnits ==
    {i \in 1..Len(tt.fut) :
        /\ tt.fut[i].st = "taken" /\ tt.fut[i].res.kind = "ok"
        /\ Get(tt.out_dict, tt.todo[i].path) = Str(tt.fut[i].res.final)
        /\ ~(tt.pc = "apply_write" /\ tt.cur = i)}

\* C25 -- in a call of translate_tree from which no exception escapes, the
\* completed count is the number of units reported so far and moves by one
\* per unit, so the reported values are 1, 2, ..., total in this order
\* whatever the completion order; succeeded never decreases; at the return
\* completed = total and succeeded is the number of units applied.
C25_ProgressMonotonicComplete ==
    /\ [](InResultLoop => tt.completed = Ticked /\ tt.completed <= Len(tt.todo))
    /\ [](tt.pc = "returned" =>
              /\ tt.completed = Len(tt.todo)
              /\ tt.succeeded = Cardinality(AppliedUnits)
              /\ tt.succeeded + Cardinality({i \in 1..Len(tt.fut) : tt.fut[i].res.kind = "none"})
                     = Len(tt.todo))
    /\ [][(InResultLoop /\ tt'.pc \in {"dispatch", "apply_write", "applied", "final_write",
                                       "returned"}) =>
              /\ tt'.completed \in {tt.completed, tt.completed + 1}
              /\ tt'.succeeded >= tt.succeeded
              /\ tt'.completed = tt.completed + 1 =>
                     \E i \in 1..Len(tt.fut) :
                         /\ tt'.fut[i].st = "taken"
                         /\ \/ tt.fut[i].st = "done" /\ tt.fut[i].res.kind = "none"
                            \/ tt.pc = "applied" /\ tt.cur = i]_vars

\* A pooled call has returned with two units or more, one applied and one
\* failed.
C25_Witness ==
    /\ tt.pc = "returned" /\ MAX_WORKERS > 1
    /\ Len(tt.todo) >= 2
    /\ tt.completed = Len(tt.todo)
    /\ tt.succeeded >= 1
    /\ tt.succeeded < tt.completed

\* C26 -- no thread is inside translate_one / call_openai_batch while it
\* holds the lock.  The lock is held only by the main thread, inside
\* apply_success or the final write; a service call is a step of a pool
\* worker, which neither takes nor releases the lock, or of the main thread
\* of the sequential loop, and then the lock is free.
C26_NoCallUnderLock ==
    /\ [](tt.lock => tt.pc \in {"apply_write", "final_write"})
    /\ [][calls' # calls =>
              /\ tt'.lock = tt.lock /\ tt'.pc = tt.pc
              /\ MAX_WORKERS <= 1 => ~tt.lock /\ tt.pc = "dispatch"]_vars

\* The main thread holds the lock in apply_success while a pool worker can
\* be in the service call of another unit.
C26_Witness ==
    /\ tt.lock /\ tt.pc = "apply_write"
    /\ MAX_WORKERS > 1
    /\ \E i \in 1..Len(tt.fut) : may_run(i)
    /\ calls # <<>>

\* C27 -- for every source with placeholders and every response, the text
\* postprocess accepts has the ordered placeholder list of the source, also
\* when the response has fewer or more placeholders than the source.
C27_RepairGivesParity ==
    (tool.op = "postprocess" /\ extract_placeholders(tool.s) # <<>>) =>
        extract_placeholders(tool.final) = extract_placeholders(tool.s)

\* The number of placeholder matches in the first n atoms of s.
PhCount(s, n) == Cardinality({j \in 1..n : s[j] \in PlaceholderAtoms})

\* The i-th placeholder match of s, from 1.
PhAt(s, i) == s[CHOOSE j \in 1..Len(s) : s[j] \in PlaceholderAtoms /\ PhCount(s, j) = i]

IsToken(a, n) == \E i \in 0..(n - 1) : a = PhToken(i)

TokenIndex(a, n) == CHOOSE i \in 0..(n - 1) : a = PhToken(i)

\* Masking as the claim states it: match i (from 0) becomes __PH<i>__, the
\* rest stays, and the mapping has one entry per match, in order.
MaskedAsStated ==
    LET n == PhCount(tool.s, Len(tool.s))
    IN  /\ Len(tool.masked) = Len(tool.s)
        /\ \A j \in 1..Len(tool.s) :
               tool.masked[j] = IF tool.s[j] \in PlaceholderAtoms
                                THEN PhToken(PhCount(tool.s, j) - 1)
                                ELSE tool.s[j]
        /\ Len(tool.mapping) = n
        /\ \A i \in 1..n : tool.mapping[i] = <<PhToken(i - 1), PhAt(tool.s, i)>>
        /\ tool.batch = << <<"p", tool.masked>> >>

\* The tokens of the response, in the order they come.
TokensOf(text, n) == SelectSeq(text, LAMBDA a : IsToken(a, n))

\* Every token of the request is in the response exactly once.
TokensIntact ==
    LET n == Len(tool.mapping)
    IN  /\ Len(TokensOf(tool.resp, n)) = n
        /\ \A i \in 0..(n - 1) : \E j \in 1..Len(tool.resp) : tool.resp[j] = PhToken(i)

\* ... and in the order of the request, with no placeholder written out.
TokensInOrder ==
    /\ TokensIntact
    /\ TokensOf(tool.resp, Len(tool.mapping)) = [i \in 1..Len(tool.mapping) |-> PhToken(i - 1)]
    /\ extract_placeholders(tool.resp) = <<>>

\* The response with every token replaced by its placeholder.
TokensReplaced(text) ==
    LET n == Len(tool.mapping)
    IN  [j \in 1..Len(text) |->
            IF IsToken(text[j], n) THEN tool.mapping[TokenIndex(text[j], n) + 1][2] ELSE text[j]]

\* C29 -- as stated: match i of the source becomes __PH<i>__ with one
\* mapping entry per match, the unit is a batch of one item with its path
\* and the masked text, and when the response holds the tokens intact the
\* final value is the response with every token replaced by its placeholder.
C29_TokensReplacedInResponse ==
    tool.op = "postprocess" =>
        /\ MaskedAsStated
        /\ TokensIntact => tool.final = TokensReplaced(tool.resp)

\* C29 -- amended: masking and the batch as stated; when the response holds
\* the tokens intact, in the order of the request and with no placeholder
\* written out, the final value is the response with every token replaced
\* by its placeholder, for a target that is not zh/ja/ko after the CJK
\* characters of the response were removed and its ends trimmed; when the
\* tokens are intact in another order the final value has the source's
\* placeholders in the source's order.
C29_TokensReplacedInOrder ==
    tool.op = "postprocess" =>
        /\ MaskedAsStated
        /\ TokensInOrder =>
               tool.final = TokensReplaced(IF is_cjk(tool.tgt_code) THEN strip(tool.resp)
                                           ELSE strip(SelectSeq(tool.resp,
                                                                LAMBDA a : a \notin CjkAtoms)))
        /\ (TokensIntact /\ extract_placeholders(tool.resp) = <<>>) =>
               extract_placeholders(tool.final) = extract_placeholders(tool.s)

\* Hello {name} -> Hello __PH0__ -> Bonjour __PH0__ -> Bonjour {name}, and
\* a source with two placeholders whose tokens come back with a word between.
C29_Witness ==
    /\ tool.op = "postprocess"
    /\ tool.s = <<"{n}", "m", "%s">>
    /\ tool.masked = <<PhToken(0), "m", PhToken(1)>>
    /\ tool.resp = <<PhToken(0), "m", PhToken(1)>>
    /\ tool.final = <<"{n}", "m", "%s">>

\* apply_success for unit i has entered its critical section in this step.
ApplyStep(i) ==
    /\ tt.pc = "dispatch" /\ tt'.pc = "apply_write"
    /\ tt'.cur = i

\* C28 -- within a stage, whose translate_tree calls share the cache loaded
\* at its start, no step removes a key of the cache; the entry a successful
\* unit writes has the key (source language, target code, base text of the
\* unit's path) and the value postprocess returned, and no other entry
\* changes in that step.
C28_CacheGrowsKeyedByOriginal ==
    /\ [][(proc.pc = "loop" /\ proc'.pc \in {"loop", "saving"}) =>
              DOMAIN cache \subseteq DOMAIN cache']_vars
    /\ [][\A i \in 1..Len(tt.fut) :
              ApplyStep(i) =>
                  LET k == <<tt.src_lang_name, tt.tgt_code, Get(base_map, tt.todo[i].path).s>>
                  IN  /\ DOMAIN cache' = DOMAIN cache \cup {k}
                      /\ cache'[k] = tt.fut[i].res.final
                      /\ \A j \in DOMAIN cache : j # k => cache'[j] = cache[j]]_vars

\* A unit whose masked text differs from its base text is being applied in
\* the second call of a stage: the cache holds the entries of the first
\* call and the new one under the base text.
C28_Witness ==
    /\ tt.pc = "apply_write" /\ proc.pc = "loop" /\ proc.idx > 1
    /\ tt.todo[tt.cur].masked # Get(base_map, tt.todo[tt.cur].path).s
    /\ tt.fut[tt.cur].res.final # tt.todo[tt.cur].masked
    /\ <<tt.src_lang_name, tt.tgt_code, Get(base_map, tt.todo[tt.cur].path).s>> \in DOMAIN cache
    /\ \E k \in DOMAIN cache : k[2] # tt.tgt_code

\* The base paths E lacks, in the order of the base traversal.
MissingFromE == SelectSeq(Keys(base_map), LAMBDA q : ~Has(existing_map, q))

C31_PlaceholderFallsBack ==
    (/\ tool.op = "render_lookup"
     /\ Has(tool.dir[tool.code].data.kv, JoinDots(tool.key))
     /\ Get(tool.dir[tool.code].data.kv, JoinDots(tool.key)) = Str(<<>>)) =>
        LET codes == Tail(LayerCodes(tool.code))
            hits == {i \in 1..Len(codes) : ResolvesIn(tool.dir[codes[i]], tool.key)}
            first == CHOOSE i \in hits : \A j \in hits : i <= j
        IN  /\ tool.val # Str(<<>>)
            /\ hits # {}
            /\ tool.val = deep_get(tool.dir[codes[first]].data, tool.key)

\* C32 -- the base file is never written by the tool: after a deletion by
\* key pattern, a sort with include_base = FALSE and a turn of the second
\* stage for any language of the manifest, zh-hans.json has the content it
\* had before.
C32_BaseFileUntouched ==
    /\ tool.op = "clean_translations_by_key" => tool.out[BASE] = tool.dir[BASE]
    /\ (tool.op = "sort_locales" /\ ~tool.include_base) => tool.out[BASE] = tool.dir[BASE]
    /\ tool.op = "second_hop_turn" => tool.out[BASE] = tool.dir[BASE]
====
